---- MODULE Spec2Model ----
(***************************************************************************)
(* FalconPass: the client-side cryptography module                         *)
(* (frontend/src/crypto/index.ts), the two vault services built on it,     *)
(* the registration / login requests of the authentication services, the   *)
(* server's user, WebAuthn and vault services, and the client's session    *)
(* and vault stores.                                                       *)
(*                                                                         *)
(* Bytes are integers 0..255, byte arrays are sequences of bytes, strings  *)
(* are sequences of Unicode code points.  An optional value (null | x) is  *)
(* the empty tuple or the one-element tuple <<x>>.                         *)
(***************************************************************************)
EXTENDS Integers, Sequences, FiniteSets, TLC

VARIABLES
  wire,            \* serialize / deserialize call in progress
  rng,             \* values the secure random source has already returned
  derived,         \* log of deriveKeyFromPassword calls
  sealLog,         \* log of encryptData calls
  box,             \* envelope under test: what encryptData returned
  opened,          \* decryptData call on the envelope under test
  masterKey,       \* VaultService.masterKey
  masterPassword,  \* VaultService.masterPassword
  keySalt,         \* salt returned with the key now in masterKey
  pendingUnlock,   \* setMasterPassword calls awaiting deriveKeyFromPassword
  requests,        \* request bodies handed to apiService
  users,           \* server: rows of the users table
  challenges,      \* server: the map of active login challenges
  logins,          \* client: logins between the challenge and the proof
  tokens,          \* server: user ids a token was issued for
  thrown,          \* client: errors the vault operations have raised
  bulk,            \* client: the last bulk list or import and what it returned
  generated,       \* the last generatePassword call and what it returned
  trip,            \* the last encryptVaultEntry / decryptVaultEntry round trip
  vault_entries,   \* server: rows of the vault_entries table
  uuids,           \* server: how many ids uuidv4 has produced
  reply,           \* server: the last vault service call and what it returned
  registering,     \* server: registerUser calls between the lookup and the insert
  userLog,         \* server: the UserService calls that have finished, in order
  challengeStore,  \* server: the WebAuthn challenge expected from each user
  webauthn_credentials, \* server: rows of the webauthn_credentials table
  webauthnReply,   \* server: the last WebAuthnService call and how it ended
  authService,     \* client: AuthService.isAuthenticated and currentUser
  authStore,       \* client: the state of useAuthStore
  sessionCalls,    \* client: login and logout calls awaiting the server
  sessionDone,     \* client: the last logout that finished
  vaultStore,      \* client: the state of useVaultStore
  storeCalls       \* client: the vault store's actions, in flight and finished

authVars == <<users, challenges, logins, tokens>>

clientVars == <<thrown, bulk, generated, trip>>

serverVars == <<vault_entries, uuids, reply>>

userVars == <<registering, userLog>>

webauthnVars == <<challengeStore, webauthn_credentials, webauthnReply>>

sessionVars == <<authService, authStore, sessionCalls, sessionDone>>

storeVars == <<vaultStore, storeCalls>>

otherVars == <<userVars, webauthnVars, sessionVars, storeVars>>

vars == <<wire, rng, derived, sealLog, box, opened, masterKey, masterPassword,
          keySalt, pendingUnlock, requests, authVars, clientVars, serverVars, otherVars>>

(***************************************************************************)
(* Constants of the crypto module and bounds of the model.                 *)
(***************************************************************************)
SALT_BYTES == 16
NONCE_BYTES == 24
KEY_BYTES == 32
MAC_BYTES == 16

MaxCtLen == 2
MaxSeed == 3

Null == <<>>
Some(x) == <<x>>

Min(a, b) == IF a < b THEN a ELSE b

(***************************************************************************)
(* Byte helpers.                                                           *)
(***************************************************************************)
RECURSIVE BitXor(_, _)
BitXor(a, b) ==
  IF a = 0 THEN b
  ELSE IF b = 0 THEN a
  ELSE (((a % 2) + (b % 2)) % 2) + 2 * BitXor(a \div 2, b \div 2)

\* Uint8Array.prototype.slice(from, to): zero-based, end exclusive, clamped.
Slice(a, from, to) ==
  SubSeq(a, Min(from, Len(a)) + 1, Min(to, Len(a)))

Pow2(n) == [i \in 0..7 |-> CASE i = 0 -> 1 [] i = 1 -> 2 [] i = 2 -> 4
                              [] i = 3 -> 8 [] i = 4 -> 16 [] i = 5 -> 32
                              [] i = 6 -> 64 [] i = 7 -> 128][n]

FlipBit(a, pos, bit) == [a EXCEPT ![pos] = BitXor(a[pos], Pow2(bit))]

(***************************************************************************)
(* sodium.to_base64 / sodium.from_base64, default variant                  *)
(* URLSAFE_NO_PADDING: three bytes make four characters of the alphabet    *)
(* A-Z a-z 0-9 - _ ; a trailing group of one or two bytes makes two or     *)
(* three characters; no padding is written.                                *)
(***************************************************************************)
UrlSafeChar(v) ==
  CASE v < 26 -> 65 + v
    [] v >= 26 /\ v < 52 -> 97 + (v - 26)
    [] v >= 52 /\ v < 62 -> 48 + (v - 52)
    [] v = 62 -> 45
    [] v = 63 -> 95

UrlSafeValue(ch) ==
  CASE ch >= 65 /\ ch <= 90 -> ch - 65
    [] ch >= 97 /\ ch <= 122 -> ch - 97 + 26
    [] ch >= 48 /\ ch <= 57 -> ch - 48 + 52
    [] ch = 45 -> 62
    [] ch = 95 -> 63
    [] OTHER -> -1

ByteAt(a, i) == IF i <= Len(a) THEN a[i] ELSE 0

\* The 24-bit group g (zero-based) of a byte array, short groups zero filled.
Group24(a, g) ==
  ByteAt(a, 3 * g + 1) * 65536 + ByteAt(a, 3 * g + 2) * 256 + ByteAt(a, 3 * g + 3)

Pow64(k) == CASE k = 0 -> 1 [] k = 1 -> 64 [] k = 2 -> 4096 [] k = 3 -> 262144
Pow256(k) == CASE k = 0 -> 1 [] k = 1 -> 256 [] k = 2 -> 65536

EncodedLen(n) == 4 * (n \div 3) + (CASE n % 3 = 0 -> 0 [] n % 3 = 1 -> 2 [] n % 3 = 2 -> 3)

to_base64(a) ==
  [i \in 1..EncodedLen(Len(a)) |->
     UrlSafeChar((Group24(a, (i - 1) \div 4) \div Pow64(3 - ((i - 1) % 4))) % 64)]

SextetAt(s, i) == IF i <= Len(s) THEN UrlSafeValue(s[i]) ELSE 0

Group24Of(s, g) ==
  SextetAt(s, 4 * g + 1) * 262144 + SextetAt(s, 4 * g + 2) * 4096
    + SextetAt(s, 4 * g + 3) * 64 + SextetAt(s, 4 * g + 4)

DecodedLen(m) == 3 * (m \div 4) + (CASE m % 4 = 0 -> 0 [] m % 4 = 2 -> 1
                                     [] m % 4 = 3 -> 2 [] OTHER -> 0)

\* from_base64 throws on a character outside the alphabet and on an
\* incomplete final group; the result is Null then.
from_base64(s) ==
  IF (\E i \in 1..Len(s) : UrlSafeValue(s[i]) < 0) \/ Len(s) % 4 = 1
  THEN Null
  ELSE Some([j \in 1..DecodedLen(Len(s)) |->
               (Group24Of(s, (j - 1) \div 3) \div Pow256(2 - ((j - 1) % 3))) % 256])

(***************************************************************************)
(* serializeEncryptedData / deserializeEncryptedData.                      *)
(***************************************************************************)
serializeEncryptedData(ciphertext, nonce, salt) ==
  to_base64(salt \o nonce \o ciphertext)

\* Mutant: the nonce and the ciphertext are sliced one byte early.
deserializeEncryptedData_OffByOne(serialized) ==
  LET decoded == from_base64(serialized) IN
  IF decoded = Null
  THEN [ok |-> FALSE, ciphertext |-> <<>>, nonce |-> <<>>, salt |-> <<>>]
  ELSE LET combined == decoded[1] IN
       [ok |-> TRUE,
        salt |-> Slice(combined, 0, SALT_BYTES),
        nonce |-> Slice(combined, SALT_BYTES - 1, SALT_BYTES + NONCE_BYTES - 1),
        ciphertext |-> Slice(combined, SALT_BYTES + NONCE_BYTES - 1, Len(combined))]

deserializeEncryptedData(serialized) ==
  LET decoded == from_base64(serialized) IN
  IF decoded = Null
  THEN [ok |-> FALSE, ciphertext |-> <<>>, nonce |-> <<>>, salt |-> <<>>]
  ELSE LET combined == decoded[1] IN
       [ok |-> TRUE,
        salt |-> Slice(combined, 0, SALT_BYTES),
        nonce |-> Slice(combined, SALT_BYTES, SALT_BYTES + NONCE_BYTES),
        ciphertext |-> Slice(combined, SALT_BYTES + NONCE_BYTES, Len(combined))]

(***************************************************************************)
(* sodium.from_string / sodium.to_string: UTF-8 encoding of a string and   *)
(* strict (fatal) UTF-8 decoding of a byte array.                          *)
(***************************************************************************)
Utf8Char(cp) ==
  CASE cp < 128 -> <<cp>>
    [] cp >= 128 /\ cp < 2048 -> <<192 + (cp \div 64), 128 + (cp % 64)>>
    [] cp >= 2048 /\ cp < 65536 ->
         <<224 + (cp \div 4096), 128 + ((cp \div 64) % 64), 128 + (cp % 64)>>
    [] OTHER ->
         <<240 + (cp \div 262144), 128 + ((cp \div 4096) % 64),
           128 + ((cp \div 64) % 64), 128 + (cp % 64)>>

RECURSIVE Utf8Range(_, _, _)
Utf8Range(str, lo, hi) ==
  IF lo > hi THEN <<>>
  ELSE IF lo = hi THEN Utf8Char(str[lo])
  ELSE Utf8Range(str, lo, (lo + hi) \div 2) \o Utf8Range(str, ((lo + hi) \div 2) + 1, hi)

from_string(str) == Utf8Range(str, 1, Len(str))

IsCont(a, i) == i <= Len(a) /\ a[i] >= 128 /\ a[i] < 192

\* The code point starting at byte i, as <<code point, length>>; <<-1, 0>>
\* when the bytes at i are not one well-formed UTF-8 sequence.
Utf8At(a, i) ==
  LET b == a[i] IN
  CASE b < 128 -> <<b, 1>>
    [] b >= 194 /\ b < 224 /\ IsCont(a, i + 1) ->
         <<(b - 192) * 64 + (a[i + 1] - 128), 2>>
    [] b >= 224 /\ b < 240 /\ IsCont(a, i + 1) /\ IsCont(a, i + 2) ->
         LET cp == (b - 224) * 4096 + (a[i + 1] - 128) * 64 + (a[i + 2] - 128) IN
         IF cp < 2048 \/ (cp >= 55296 /\ cp < 57344) THEN <<-1, 0>> ELSE <<cp, 3>>
    [] b >= 240 /\ b < 245 /\ IsCont(a, i + 1) /\ IsCont(a, i + 2) /\ IsCont(a, i + 3) ->
         LET cp == (b - 240) * 262144 + (a[i + 1] - 128) * 4096
                     + (a[i + 2] - 128) * 64 + (a[i + 3] - 128) IN
         IF cp < 65536 \/ cp > 1114111 THEN <<-1, 0>> ELSE <<cp, 4>>
    [] OTHER -> <<-1, 0>>

\* Null when the decoder throws: a byte array is well formed when it starts
\* with a lead byte and every lead byte begins a well-formed sequence that
\* ends at the next lead byte or at the end of the array.
to_string(a) ==
  LET leads == {i \in 1..Len(a) : ~(a[i] >= 128 /\ a[i] < 192)}
      nth(k) == CHOOSE i \in leads : Cardinality({j \in leads : j <= i}) = k
      wellFormed ==
        /\ Len(a) > 0 => 1 \in leads
        /\ \A i \in leads :
             LET d == Utf8At(a, i) IN
             /\ d[1] >= 0
             /\ (i + d[2] = Len(a) + 1 \/ (i + d[2]) \in leads)
  IN  IF wellFormed
      THEN Some([k \in 1..Cardinality(leads) |-> Utf8At(a, nth(k))[1]])
      ELSE Null

(***************************************************************************)
(* The library primitives.  randombytes_buf never returns a value it       *)
(* returned before (a collision of 16 or 24 random bytes is taken as       *)
(* impossible): the n-th call returns the bytes spelled out from seed n.   *)
(* Argon2id, the secretbox stream and its authenticator are stand-ins      *)
(* with the primitives' interface: fixed-size outputs computed from every  *)
(* input byte.                                                             *)
(***************************************************************************)
Seeds == 1..MaxSeed

randombytes_buf(seed, n) == [i \in 1..n |-> (seed * 37 + i * 11) % 256]

\* The seed of the next draw, if the source has one left.
FreshSeeds == {s \in Seeds \ rng : \A t \in Seeds \ rng : s <= t}

\* A digest of a byte array (a position-weighted sum modulo the prime 32749)
\* and the i-th byte of its expansion.
RECURSIVE DigestRange(_, _, _)
DigestRange(a, lo, hi) ==
  IF lo > hi THEN 0
  ELSE IF lo = hi THEN ((263 + 97 * lo + lo * lo) * (a[lo] + 1)) % 32749
  ELSE (DigestRange(a, lo, (lo + hi) \div 2)
          + DigestRange(a, ((lo + hi) \div 2) + 1, hi)) % 32749

Digest(a) == (DigestRange(a, 1, Len(a)) + 131 * Len(a) + 1) % 32749

Expand(h, i) ==
  CASE i = 1 -> h \div 256
    [] i = 2 -> h % 256
    [] OTHER -> (((h + 7 * i) * (h + 13 * i + 5)) % 32749) % 256

Argon2id(pass, salt) ==
  LET p == from_string(pass)
      h == Digest(<<Len(p) % 256>> \o p \o salt)
  IN  [i \in 1..KEY_BYTES |-> Expand(h, i)]

StreamXor(bytes, nonce, key) ==
  LET h == Digest(key \o nonce) IN
  [i \in 1..Len(bytes) |-> BitXor(bytes[i], Expand(h, i + 2))]

Authenticator(body, nonce, key) ==
  LET h == Digest(key \o nonce \o body) IN
  [j \in 1..MAC_BYTES |-> Expand(h, j)]

\* crypto_secretbox_easy: the 16-byte authenticator, then the encrypted bytes.
crypto_secretbox_easy(message, nonce, key) ==
  LET body == StreamXor(message, nonce, key) IN
  Authenticator(body, nonce, key) \o body

\* crypto_secretbox_open_easy: Null when the library throws.
crypto_secretbox_open_easy(ciphertext, nonce, key) ==
  IF Len(ciphertext) < MAC_BYTES \/ Len(nonce) # NONCE_BYTES \/ Len(key) # KEY_BYTES
  THEN Null
  ELSE LET body == SubSeq(ciphertext, MAC_BYTES + 1, Len(ciphertext)) IN
       IF SubSeq(ciphertext, 1, MAC_BYTES) # Authenticator(body, nonce, key)
       THEN Null
       ELSE Some(StreamXor(body, nonce, key))

(***************************************************************************)
(* deriveKeyFromPassword, encryptData, decryptData.  saltArg is the        *)
(* optional salt parameter; seed is the draw randombytes_buf makes when    *)
(* it is called.                                                           *)
(***************************************************************************)
\* Mutant: the salt parameter is ignored and a salt is always generated.
deriveKeyFromPassword_AlwaysGenerates(password, saltArg, seed) ==
  LET salt == randombytes_buf(seed, SALT_BYTES) IN
  [key |-> Argon2id(password, salt), salt |-> salt]

\* Mutant: the password is not passed to the hash.
deriveKeyFromPassword_IgnoresPassword(password, saltArg, seed) ==
  LET salt == IF saltArg = Null THEN randombytes_buf(seed, SALT_BYTES) ELSE saltArg[1] IN
  [key |-> Argon2id(<<>>, salt), salt |-> salt]

deriveKeyFromPassword(password, saltArg, seed) ==
  LET salt == IF saltArg = Null THEN randombytes_buf(seed, SALT_BYTES) ELSE saltArg[1] IN
  [key |-> Argon2id(password, salt), salt |-> salt]

\* Mutant: the nonce does not come from the random source.
encryptData_FixedNonce(data, key, seed) ==
  LET nonce == [i \in 1..NONCE_BYTES |-> 0] IN
  [ciphertext |-> crypto_secretbox_easy(from_string(data), nonce, key),
   nonce |-> nonce]

encryptData(data, key, seed) ==
  LET nonce == randombytes_buf(seed, NONCE_BYTES) IN
  [ciphertext |-> crypto_secretbox_easy(from_string(data), nonce, key),
   nonce |-> nonce]

DecryptionFailed == "Decryption failed. Invalid key or corrupted data."

\* Mutant: the decrypted bytes are read as one character per byte.
decryptData_Latin1(ciphertext, nonce, key) ==
  LET decrypted == crypto_secretbox_open_easy(ciphertext, nonce, key) IN
  IF decrypted = Null
  THEN [ok |-> FALSE, value |-> <<>>, error |-> DecryptionFailed]
  ELSE [ok |-> TRUE, value |-> decrypted[1], error |-> ""]

\* Mutant: the authenticator is not verified before the stream is applied.
decryptData_Unauthenticated(ciphertext, nonce, key) ==
  LET str == to_string(StreamXor(Slice(ciphertext, MAC_BYTES, Len(ciphertext)), nonce, key)) IN
  IF str = Null
  THEN [ok |-> FALSE, value |-> <<>>, error |-> DecryptionFailed]
  ELSE [ok |-> TRUE, value |-> str[1], error |-> ""]

\* Mutant: a mismatch in the tail of the authenticator alone is reported as
\* corrupted data, every other failure as an invalid key.
decryptData_NamesCause(ciphertext, nonce, key) ==
  LET decrypted == crypto_secretbox_open_easy(ciphertext, nonce, key) IN
  IF decrypted = Null
  THEN IF /\ Len(ciphertext) >= MAC_BYTES
          /\ Len(nonce) = NONCE_BYTES
          /\ SubSeq(ciphertext, 1, 2) =
               SubSeq(Authenticator(SubSeq(ciphertext, MAC_BYTES + 1, Len(ciphertext)),
                                    nonce, key), 1, 2)
       THEN [ok |-> FALSE, value |-> <<>>, error |-> "Decryption failed. Corrupted data."]
       ELSE [ok |-> FALSE, value |-> <<>>, error |-> "Decryption failed. Invalid key."]
  ELSE LET str == to_string(decrypted[1]) IN
       IF str = Null
       THEN [ok |-> FALSE, value |-> <<>>, error |-> DecryptionFailed]
       ELSE [ok |-> TRUE, value |-> str[1], error |-> ""]

decryptData(ciphertext, nonce, key) ==
  LET decrypted == crypto_secretbox_open_easy(ciphertext, nonce, key) IN
  IF decrypted = Null
  THEN [ok |-> FALSE, value |-> <<>>, error |-> DecryptionFailed]
  ELSE LET str == to_string(decrypted[1]) IN
       IF str = Null
       THEN [ok |-> FALSE, value |-> <<>>, error |-> DecryptionFailed]
       ELSE [ok |-> TRUE, value |-> str[1], error |-> ""]

(***************************************************************************)
(* Input samples.                                                          *)
(***************************************************************************)
ByteSamples == {0, 65, 255}

ByteArraysUpTo(n) == UNION {[1..k -> ByteSamples] : k \in 0..n}

SampleNonces ==
  {randombytes_buf(seed, NONCE_BYTES) : seed \in Seeds} \cup {[i \in 1..NONCE_BYTES |-> 255]}

SampleSalts ==
  {randombytes_buf(seed, SALT_BYTES) : seed \in Seeds} \cup {[i \in 1..SALT_BYTES |-> 0]}

\* "pw", "px"
Passwords == {<<112, 119>>, <<112, 120>>}

\* "", "a", "hé€" (one-, two- and three-byte characters), U+1F511
Plaintexts == {<<>>, <<97>>, <<104, 233, 8364>>, <<128273>>}

(***************************************************************************)
(* Initial values.                                                         *)
(***************************************************************************)
IdleWire ==
  [stage |-> "idle", ciphertext |-> <<>>, nonce |-> <<>>, salt |-> <<>>,
   serialized |-> <<>>,
   out |-> [ok |-> FALSE, ciphertext |-> <<>>, nonce |-> <<>>, salt |-> <<>>]]

IdleBox ==
  [stage |-> "idle", plain |-> <<>>, password |-> <<>>, keySalt |-> <<>>, key |-> <<>>,
   ciphertext |-> <<>>, nonce |-> <<>>]

IdleOpened ==
  [stage |-> "idle", tamper |-> "none", password |-> <<>>, keySalt |-> <<>>,
   ciphertext |-> <<>>, nonce |-> <<>>, key |-> <<>>,
   result |-> [ok |-> FALSE, value |-> <<>>, error |-> ""]]

InitCrypto ==
  /\ rng = {}
  /\ derived = {}
  /\ sealLog = <<>>
  /\ box = IdleBox
  /\ opened = IdleOpened

InitVault ==
  /\ masterKey = Null
  /\ masterPassword = Null
  /\ keySalt = Null
  /\ pendingUnlock = {}
  /\ requests = {}

InitAuth ==
  /\ users = {}
  /\ challenges = {}
  /\ logins = {}
  /\ tokens = {}

InitClient ==
  /\ thrown = {}
  /\ bulk = Null
  /\ generated = Null
  /\ trip = Null

InitServer ==
  /\ vault_entries = {}
  /\ uuids = 0
  /\ reply = Null

InitUser ==
  /\ registering = {}
  /\ userLog = <<>>

InitWebAuthn ==
  /\ challengeStore = {}
  /\ webauthn_credentials = {}
  /\ webauthnReply = Null

InitialAuthState == [user |-> Null, isAuthenticated |-> FALSE, isLoading |-> FALSE, error |-> Null]

InitSession ==
  /\ authService = [isAuthenticated |-> FALSE, currentUser |-> Null]
  /\ authStore = InitialAuthState
  /\ sessionCalls = {}
  /\ sessionDone = Null

InitialVaultState == [entries |-> <<>>, isLoading |-> FALSE, error |-> Null]

InitStore ==
  /\ vaultStore = InitialVaultState
  /\ storeCalls = {}

InitOther ==
  /\ InitUser
  /\ InitWebAuthn
  /\ InitSession
  /\ InitStore

Init ==
  /\ wire = IdleWire
  /\ InitCrypto
  /\ InitVault
  /\ InitAuth
  /\ InitClient
  /\ InitServer
  /\ InitOther

(***************************************************************************)
(* Wire format: one serializeEncryptedData call on sampled arguments, then *)
(* deserializeEncryptedData on what it returned.                           *)
(***************************************************************************)
InitWire ==
  /\ wire \in {[IdleWire EXCEPT !.stage = "input", !.ciphertext = c, !.nonce = n, !.salt = s] :
                 c \in ByteArraysUpTo(MaxCtLen), n \in SampleNonces, s \in SampleSalts}
  /\ InitCrypto
  /\ InitVault
  /\ InitAuth
  /\ InitClient
  /\ InitServer
  /\ InitOther

Serialize ==
  /\ wire.stage = "input"
  /\ wire' = [wire EXCEPT !.stage = "serialized",
                          !.serialized = serializeEncryptedData(wire.ciphertext, wire.nonce, wire.salt)]
  /\ UNCHANGED <<rng, derived, sealLog, box, opened, masterKey, masterPassword,
                 keySalt, pendingUnlock, requests,
                 authVars, clientVars, serverVars, otherVars>>

Deserialize ==
  /\ wire.stage = "serialized"
  /\ wire' = [wire EXCEPT !.stage = "deserialized",
                          !.out = deserializeEncryptedData(wire.serialized)]
  /\ UNCHANGED <<rng, derived, sealLog, box, opened, masterKey, masterPassword,
                 keySalt, pendingUnlock, requests,
                 authVars, clientVars, serverVars, otherVars>>

\* Prefix lengths of a stored string that still decode: 0, 2, 3, 4 and 52
\* characters are 0, 1, 2, 3 and 39 bytes.
StoredLengths == {0, 2, 3, 4, 52}

\* deserializeEncryptedData on a stored string that has lost its tail.
DeserializeStored ==
  /\ wire.stage = "serialized"
  /\ \E n \in StoredLengths :
       LET stored == SubSeq(wire.serialized, 1, n) IN
       wire' = [wire EXCEPT !.stage = "deserializedStored",
                            !.serialized = stored,
                            !.out = deserializeEncryptedData(stored)]
  /\ UNCHANGED <<rng, derived, sealLog, box, opened, masterKey, masterPassword,
                 keySalt, pendingUnlock, requests,
                 authVars, clientVars, serverVars, otherVars>>

NextWire == Serialize \/ Deserialize \/ DeserializeStored

SpecWire == InitWire /\ [][NextWire]_vars

(***************************************************************************)
(* Key derivation and the envelope: deriveKeyFromPassword calls, one       *)
(* encryptData call under a derived key, and one decryptData call on the   *)
(* triple it returned, as returned or with one bit of the ciphertext, the  *)
(* nonce or the key flipped, or with another derived key.                  *)
(***************************************************************************)
MaxDerived == 2

DerivedRecord(by, password, saltArg, res) ==
  [by |-> by, password |-> password, saltArg |-> saltArg, key |-> res.key, salt |-> res.salt]

\* The salt arguments a caller has at hand: none, or a salt returned earlier.
SaltArgs == {Null} \cup {Some(r.salt) : r \in derived}

DeriveKey(password, saltArg) ==
  /\ Cardinality(derived) < MaxDerived
  /\ \E seed \in FreshSeeds :
       /\ derived' = derived \cup
            {DerivedRecord("deriveKeyFromPassword", password, saltArg,
                           deriveKeyFromPassword(password, saltArg, seed))}
       /\ rng' = IF saltArg = Null THEN rng \cup {seed} ELSE rng
  /\ UNCHANGED <<wire, sealLog, box, opened, masterKey, masterPassword,
                 keySalt, pendingUnlock, requests,
                 authVars, clientVars, serverVars, otherVars>>

Seal(plain, r) ==
  /\ box.stage = "idle"
  /\ \E seed \in FreshSeeds :
       LET sealed == encryptData(plain, r.key, seed) IN
       /\ box' = [stage |-> "sealed", plain |-> plain, password |-> r.password,
                  keySalt |-> r.salt, key |-> r.key,
                  ciphertext |-> sealed.ciphertext, nonce |-> sealed.nonce]
       /\ rng' = rng \cup {seed}
  /\ UNCHANGED <<wire, derived, sealLog, opened, masterKey, masterPassword,
                 keySalt, pendingUnlock, requests,
                 authVars, clientVars, serverVars, otherVars>>

\* Byte positions whose bits are flipped: the first and the last byte of each
\* array, and the last byte of the authenticator and the first after it.
FlipPositions(a) == {1, Len(a)} \cup ({MAC_BYTES, MAC_BYTES + 1} \cap (1..Len(a)))

OpenWith(tamper, r, ciphertext, nonce, key) ==
  /\ box.stage = "sealed"
  /\ opened.stage = "idle"
  /\ opened' = [stage |-> "done", tamper |-> tamper, password |-> r.password,
                keySalt |-> r.salt, ciphertext |-> ciphertext,
                nonce |-> nonce, key |-> key,
                result |-> decryptData(ciphertext, nonce, key)]
  /\ UNCHANGED <<wire, rng, derived, sealLog, box, masterKey, masterPassword,
                 keySalt, pendingUnlock, requests,
                 authVars, clientVars, serverVars, otherVars>>

BoxOwner == [password |-> box.password, salt |-> box.keySalt]

Open == OpenWith("none", BoxOwner, box.ciphertext, box.nonce, box.key)

OpenFlippedCiphertext ==
  \E pos \in FlipPositions(box.ciphertext), bit \in 0..7 :
    OpenWith("ciphertext", BoxOwner, FlipBit(box.ciphertext, pos, bit), box.nonce, box.key)

OpenFlippedNonce ==
  \E pos \in FlipPositions(box.nonce), bit \in 0..7 :
    OpenWith("nonce", BoxOwner, box.ciphertext, FlipBit(box.nonce, pos, bit), box.key)

OpenFlippedKey ==
  \E pos \in FlipPositions(box.key), bit \in 0..7 :
    OpenWith("key", BoxOwner, box.ciphertext, box.nonce, FlipBit(box.key, pos, bit))

\* The key of another derivation: another password, another salt, or both.
OpenOtherKey ==
  \E r \in derived :
    /\ <<r.password, r.salt>> # <<box.password, box.keySalt>>
    /\ OpenWith("otherKey", r, box.ciphertext, box.nonce, r.key)

NextSeal ==
  \/ \E password \in Passwords, saltArg \in SaltArgs : DeriveKey(password, saltArg)
  \/ \E plain \in Plaintexts, r \in derived : Seal(plain, r)
  \/ Open
  \/ OpenFlippedCiphertext
  \/ OpenFlippedNonce
  \/ OpenFlippedKey
  \/ OpenOtherKey

SpecSeal == Init /\ [][NextSeal]_vars

(***************************************************************************)
(* Vault entries and JSON.stringify.  An entry is modelled by its title,   *)
(* username and password; JSON.stringify writes the members in order,      *)
(* escaping the quotation mark and the backslash.                          *)
(***************************************************************************)
\* A lower-case hexadecimal digit.
HexDigit(n) == IF n < 10 THEN 48 + n ELSE 97 + (n - 10)

TitleKey == <<116, 105, 116, 108, 101>>
UsernameKey == <<117, 115, 101, 114, 110, 97, 109, 101>>
PasswordKey == <<112, 97, 115, 115, 119, 111, 114, 100>>
IdKey == <<105, 100>>
TempId == <<116, 101, 109, 112, 45, 105, 100>>

\* JSON.stringify quotes a string: the quotation mark, the backslash and the
\* control characters are escaped.
JsonEscapeChar(ch) ==
  CASE ch = 34 -> <<92, 34>>
    [] ch = 92 -> <<92, 92>>
    [] ch = 8 -> <<92, 98>>
    [] ch = 9 -> <<92, 116>>
    [] ch = 10 -> <<92, 110>>
    [] ch = 12 -> <<92, 102>>
    [] ch = 13 -> <<92, 114>>
    [] ch < 32 -> <<92, 117, 48, 48, HexDigit(ch \div 16), HexDigit(ch % 16)>>
    [] OTHER -> <<ch>>

RECURSIVE JsonEscape(_, _, _)
JsonEscape(str, lo, hi) ==
  IF lo > hi THEN <<>>
  ELSE IF lo = hi THEN JsonEscapeChar(str[lo])
  ELSE JsonEscape(str, lo, (lo + hi) \div 2) \o JsonEscape(str, ((lo + hi) \div 2) + 1, hi)

JsonString(str) == <<34>> \o JsonEscape(str, 1, Len(str)) \o <<34>>

JsonMember(key, value) == JsonString(key) \o <<58>> \o JsonString(value)

\* Mutant: the strings are written between quotation marks as they are.
JSONStringify_Unescaped(entry, id) ==
  <<123>> \o <<34>> \o TitleKey \o <<34, 58, 34>> \o entry.title \o <<34, 44>>
    \o <<34>> \o UsernameKey \o <<34, 58, 34>> \o entry.username \o <<34, 44>>
    \o <<34>> \o PasswordKey \o <<34, 58, 34>> \o entry.password \o <<34, 44>>
    \o <<34>> \o IdKey \o <<34, 58, 34>> \o id \o <<34, 125>>

\* JSON.stringify({...entry, id})
JSONStringify(entry, id) ==
  <<123>> \o JsonMember(TitleKey, entry.title) \o <<44>>
    \o JsonMember(UsernameKey, entry.username) \o <<44>>
    \o JsonMember(PasswordKey, entry.password) \o <<44>>
    \o JsonMember(IdKey, id) \o <<125>>

(***************************************************************************)
(* JSON.parse of an object whose members are strings, as JSON.stringify    *)
(* writes it (no white space).  The result is Null when JSON.parse throws, *)
(* else the sequence of <<name, value>> pairs.  \u escapes naming          *)
(* surrogate code units are not modelled.                                  *)
(***************************************************************************)
HexValue(ch) ==
  CASE ch >= 48 /\ ch <= 57 -> ch - 48
    [] ch >= 97 /\ ch <= 102 -> ch - 87
    [] ch >= 65 /\ ch <= 70 -> ch - 55
    [] OTHER -> -1

\* The number of backslashes immediately before position i.
BackslashRun(str, i) ==
  IF i = 1 \/ str[i - 1] # 92 THEN 0
  ELSE LET k == CHOOSE k \in 0..(i - 1) :
                  (k = 0 \/ str[k] # 92) /\ \A j \in (k + 1)..(i - 1) : str[j] = 92
       IN  i - 1 - k

Escaped(str, i) == BackslashRun(str, i) % 2 = 1

JsonUnescapeChar(str, i) ==
  CASE str[i] = 98 -> 8
    [] str[i] = 116 -> 9
    [] str[i] = 110 -> 10
    [] str[i] = 102 -> 12
    [] str[i] = 114 -> 13
    [] str[i] = 117 -> 4096 * HexValue(str[i + 1]) + 256 * HexValue(str[i + 2])
                        + 16 * HexValue(str[i + 3]) + HexValue(str[i + 4])
    [] OTHER -> str[i]

\* The characters between the quotation marks at a and b are well formed.
JsonStringOk(str, a, b) ==
  \A i \in (a + 1)..(b - 1) :
    /\ str[i] >= 32
    /\ Escaped(str, i) => str[i] \in {34, 92, 47, 98, 102, 110, 114, 116, 117}
    /\ (Escaped(str, i) /\ str[i] = 117) =>
         (i + 4 < b /\ \A k \in 1..4 : HexValue(str[i + k]) >= 0)

\* The string between the quotation marks at a and b.
JsonUnescape(str, a, b) ==
  LET consumed(i) == \E k \in 1..4 : i - k > a /\ Escaped(str, i - k) /\ str[i - k] = 117
      emits == {i \in (a + 1)..(b - 1) :
                  ~(str[i] = 92 /\ ~Escaped(str, i)) /\ ~consumed(i)}
      nth(k) == CHOOSE i \in emits : Cardinality({j \in emits : j < i}) = k - 1
  IN  [k \in 1..Cardinality(emits) |->
         IF Escaped(str, nth(k)) THEN JsonUnescapeChar(str, nth(k)) ELSE str[nth(k)]]

JSONParse(str) ==
  LET n == Len(str)
      quotes == {i \in 1..n : str[i] = 34 /\ ~Escaped(str, i)}
      nth(k) == CHOOSE i \in quotes : Cardinality({j \in quotes : j < i}) = k - 1
      m == Cardinality(quotes) \div 4
      shape ==
        /\ n >= 2
        /\ str[1] = 123
        /\ str[n] = 125
        /\ Cardinality(quotes) % 4 = 0
        /\ m = 0 => n = 2
        /\ m > 0 => nth(1) = 2
        /\ \A k \in 1..m :
             /\ nth(4 * k - 1) = nth(4 * k - 2) + 2
             /\ str[nth(4 * k - 2) + 1] = 58
             /\ k < m => (nth(4 * k + 1) = nth(4 * k) + 2 /\ str[nth(4 * k) + 1] = 44)
             /\ k = m => nth(4 * k) = n - 1
        /\ \A t \in 1..(2 * m) : JsonStringOk(str, nth(2 * t - 1), nth(2 * t))
  IN  IF ~shape THEN Null
      ELSE Some([k \in 1..m |->
                   <<JsonUnescape(str, nth(4 * k - 3), nth(4 * k - 2)),
                     JsonUnescape(str, nth(4 * k - 1), nth(4 * k))>>])

\* obj[name] of a parsed object: the last member of that name, Null if none.
Member(obj, name) ==
  LET at == {k \in 1..Len(obj) : obj[k][1] = name} IN
  IF at = {} THEN Null
  ELSE Some(obj[CHOOSE k \in at : \A j \in at : j <= k][2])

\* title "G", username "a@b", password "x\"é" ; title "H", username "u", password "\\"
Entries ==
  {[title |-> <<71>>, username |-> <<97, 64, 98>>, password |-> <<120, 34, 233>>],
   [title |-> <<72>>, username |-> <<117>>, password |-> <<92>>]}

\* "1"
EntryIds == {<<49>>}

Request(api, id, encryptedData, title) ==
  [api |-> api, id |-> id, encryptedData |-> encryptedData, title |-> title]

SealRecord(op, id, key, keySaltUsed, sealed, salt, plain, blob) ==
  [op |-> op, id |-> id, key |-> key, keySalt |-> keySaltUsed, nonce |-> sealed.nonce,
   ciphertext |-> sealed.ciphertext, salt |-> salt, plain |-> plain, blob |-> blob]

(***************************************************************************)
(* VaultService (the class holding masterKey and masterPassword).          *)
(***************************************************************************)
\* setMasterPassword up to the await: the password is stored and
\* deriveKeyFromPassword(password) has drawn its salt.
SetMasterPassword(password) ==
  /\ \E seed \in FreshSeeds :
       /\ pendingUnlock' = pendingUnlock \cup
            {DerivedRecord("setMasterPassword", password, Null,
                           deriveKeyFromPassword(password, Null, seed))}
       /\ rng' = rng \cup {seed}
  /\ masterPassword' = Some(password)
  /\ UNCHANGED <<wire, derived, sealLog, box, opened, masterKey, keySalt, requests,
                 authVars, clientVars, serverVars, otherVars>>

\* setMasterPassword after the await: the key is stored, the salt dropped.
SetMasterPasswordResume ==
  \E u \in pendingUnlock :
    /\ masterKey' = Some(u.key)
    /\ keySalt' = Some(u.salt)
    /\ derived' = derived \cup {u}
    /\ pendingUnlock' = pendingUnlock \ {u}
    /\ UNCHANGED <<wire, rng, sealLog, box, opened, masterPassword, requests,
                 authVars, clientVars, serverVars, otherVars>>

clearMasterPassword ==
  /\ masterPassword' = Null
  /\ masterKey' = Null
  /\ keySalt' = Null
  /\ UNCHANGED <<wire, rng, derived, sealLog, box, opened, pendingUnlock, requests,
                 authVars, clientVars, serverVars, otherVars>>

isUnlocked == masterKey # Null

\* VaultService.encryptVaultEntry: the salt written is new Uint8Array(16).
VaultService_encryptVaultEntry(entry, id, seed) ==
  LET dataString == JSONStringify(entry, id)
      sealed == encryptData(dataString, masterKey[1], seed)
      salt == [i \in 1..SALT_BYTES |-> 0]
  IN  SealRecord("VaultService.updateVaultEntry", id, masterKey[1], keySalt[1], sealed, salt,
                 dataString, serializeEncryptedData(sealed.ciphertext, sealed.nonce, salt))

\* VaultService.createVaultEntry: the request carries JSON.stringify(newEntry).
VaultService_createVaultEntry(entry, newId) ==
  /\ requests' = requests \cup
       {Request("createVaultEntry", Null, JSONStringify(entry, newId), entry.title)}
  /\ UNCHANGED <<wire, rng, derived, sealLog, box, opened, masterKey, masterPassword,
                 keySalt, pendingUnlock,
                 authVars, clientVars, serverVars, otherVars>>

VaultLocked == "Vault is locked. Please enter your master password."

\* What a throw statement raises: the class of the error and its message.
Thrown(op, type, message) == [op |-> op, type |-> type, message |-> message]

VaultService_updateVaultEntry(id, entry) ==
  IF ~isUnlocked
  THEN /\ thrown' = thrown \cup {Thrown("VaultService.updateVaultEntry", "Error", VaultLocked)}
       /\ UNCHANGED <<wire, rng, derived, sealLog, box, opened, masterKey, masterPassword,
                      keySalt, pendingUnlock, requests, authVars, bulk, generated, trip,
                      serverVars, otherVars>>
  ELSE /\ \E seed \in FreshSeeds :
            LET e == VaultService_encryptVaultEntry(entry, id, seed) IN
            /\ sealLog' = Append(sealLog, e)
            /\ requests' = requests \cup
                 {Request("updateVaultEntry", Some(id), e.blob, entry.title)}
            /\ rng' = rng \cup {seed}
       /\ UNCHANGED <<wire, derived, box, opened, masterKey, masterPassword, keySalt,
                      pendingUnlock, authVars, clientVars, serverVars, otherVars>>

(***************************************************************************)
(* The vault functions taking the key and the salt from their caller; the  *)
(* caller passes a key with the salt deriveKeyFromPassword returned with   *)
(* it.                                                                     *)
(***************************************************************************)
encryptVaultEntry(op, entry, id, key, salt, seed) ==
  LET entryJson == JSONStringify(entry, id)
      sealed == encryptData(entryJson, key, seed)
  IN  SealRecord(op, id, key, salt, sealed, salt, entryJson,
                 serializeEncryptedData(sealed.ciphertext, sealed.nonce, salt))

createVaultEntry(entry, r) ==
  /\ \E seed \in FreshSeeds :
       LET e == encryptVaultEntry("createVaultEntry", entry, TempId, r.key, r.salt, seed) IN
       /\ sealLog' = Append(sealLog, e)
       /\ requests' = requests \cup {Request("createVaultEntry", Null, e.blob, entry.title)}
       /\ rng' = rng \cup {seed}
  /\ UNCHANGED <<wire, derived, box, opened, masterKey, masterPassword, keySalt, pendingUnlock,
                 authVars, clientVars, serverVars, otherVars>>

updateVaultEntry(id, entry, r) ==
  /\ \E seed \in FreshSeeds :
       LET e == encryptVaultEntry("updateVaultEntry", entry, id, r.key, r.salt, seed) IN
       /\ sealLog' = Append(sealLog, e)
       /\ requests' = requests \cup {Request("updateVaultEntry", Some(id), e.blob, entry.title)}
       /\ rng' = rng \cup {seed}
  /\ UNCHANGED <<wire, derived, box, opened, masterKey, masterPassword, keySalt, pendingUnlock,
                 authVars, clientVars, serverVars, otherVars>>

\* importVaultEntries on a one-entry list.
importVaultEntries(entry, r) ==
  /\ \E seed \in FreshSeeds :
       LET e == encryptVaultEntry("importVaultEntries", entry, TempId, r.key, r.salt, seed) IN
       /\ sealLog' = Append(sealLog, e)
       /\ requests' = requests \cup {Request("importVault", Null, e.blob, <<>>)}
       /\ rng' = rng \cup {seed}
  /\ UNCHANGED <<wire, derived, box, opened, masterKey, masterPassword, keySalt, pendingUnlock,
                 authVars, clientVars, serverVars, otherVars>>

CallerKeys == {r \in derived : r.by = "deriveKeyFromPassword"}

NextVault ==
  \/ \E password \in Passwords : SetMasterPassword(password)
  \/ SetMasterPasswordResume
  \/ clearMasterPassword
  \/ \E entry \in Entries, id \in EntryIds : VaultService_createVaultEntry(entry, id)
  \/ \E entry \in Entries, id \in EntryIds : VaultService_updateVaultEntry(id, entry)

SpecVault == Init /\ [][NextVault]_vars

\* Salts a caller can pass that are not SALT_BYTES long: 8, 15, 17 and 32
\* bytes (the library accepts a salt of 8 bytes or more).
MalformedSalts ==
  {[i \in 1..n |-> b] : n \in {8, SALT_BYTES - 1, SALT_BYTES + 1, KEY_BYTES}, b \in {7, 255}}

\* deriveKeyFromPassword called without a salt, with a salt returned by an
\* earlier call, and with a salt of another length.
NextDerive ==
  \/ \E password \in Passwords : DeriveKey(password, Null)
  \/ \E password \in Passwords, saltArg \in SaltArgs \ {Null} : DeriveKey(password, saltArg)
  \/ \E password \in Passwords, salt \in MalformedSalts : DeriveKey(password, Some(salt))

SpecDerive == Init /\ [][NextDerive]_vars

NextVaultApi ==
  \/ \E password \in Passwords : DeriveKey(password, Null)
  \/ \E entry \in Entries, r \in CallerKeys : createVaultEntry(entry, r)
  \/ \E entry \in Entries, id \in EntryIds, r \in CallerKeys : updateVaultEntry(id, entry, r)
  \/ \E entry \in Entries, r \in CallerKeys : importVaultEntries(entry, r)

SpecVaultApi == Init /\ [][NextVaultApi]_vars

(***************************************************************************)
(* Opening entries in bulk: decryptVaultEntry, getVaultEntries and         *)
(* importVault of the vault functions.  An object member that is absent is *)
(* Null.  The response of the server and the archive are inputs: the       *)
(* entries sealed so far, each intact, damaged or undecodable.             *)
(***************************************************************************)
EncryptedVaultEntry(id, encryptedData) == [id |-> id, encryptedData |-> encryptedData]

VaultEntryObject(id, name, favorite, title, username, password) ==
  [id |-> id, name |-> name, favorite |-> favorite, title |-> title,
   username |-> username, password |-> password]

DecryptEntryFailed == "Failed to decrypt vault entry"

decryptVaultEntry(encryptedEntry, key) ==
  LET d == deserializeEncryptedData(encryptedEntry.encryptedData)
      decryptedJson == IF d.ok THEN decryptData(d.ciphertext, d.nonce, key)
                       ELSE [ok |-> FALSE, value |-> <<>>, error |-> ""]
      entry == IF decryptedJson.ok THEN JSONParse(decryptedJson.value) ELSE Null
  IN  IF entry = Null
      THEN [ok |-> FALSE, entry |-> Null, error |-> DecryptEntryFailed]
      ELSE [ok |-> TRUE, error |-> "",
            entry |-> Some(VaultEntryObject(Some(encryptedEntry.id), Null, Null,
                                            Member(entry[1], TitleKey),
                                            Member(entry[1], UsernameKey),
                                            Member(entry[1], PasswordKey)))]

\* The placeholder returned for an entry that could not be opened.
Placeholder(id, name) == VaultEntryObject(id, Some(name), Some(FALSE), Null, Null, Null)

\* Mutant: the first entry that cannot be opened ends the listing.
getVaultEntries_Aborts(response, key) ==
  IF response = Null THEN <<>>
  ELSE IF \E i \in 1..Len(response[1]) : ~decryptVaultEntry(response[1][i], key).ok
       THEN <<>>
       ELSE [i \in 1..Len(response[1]) |-> decryptVaultEntry(response[1][i], key).entry[1]]

\* getVaultEntries: response is Null when the call fails or carries no data.
getVaultEntries(response, key) ==
  IF response = Null THEN <<>>
  ELSE [i \in 1..Len(response[1]) |->
          LET encryptedEntry == response[1][i]
              opened_ == decryptVaultEntry(encryptedEntry, key)
          IN  IF opened_.ok THEN opened_.entry[1]
              ELSE Placeholder(Some(encryptedEntry.id), "Encrypted Entry")]

ExportFormat == "falconpass-export"

ImportFailed == "Failed to import vault: Invalid format"

\* importVault: importData is Null when JSON.parse throws.  attempts counts
\* the decryptVaultEntry calls made.
importVault(importData, key) ==
  IF importData = Null \/ importData[1].format # ExportFormat
  THEN [ok |-> FALSE, entries |-> <<>>, attempts |-> 0,
        error |-> Some(Thrown("importVault", "Error", ImportFailed))]
  ELSE [ok |-> TRUE, attempts |-> Len(importData[1].entries), error |-> Null,
        entries |->
          [i \in 1..Len(importData[1].entries) |->
             LET encryptedEntry == importData[1].entries[i]
                 opened_ == decryptVaultEntry(encryptedEntry, key)
             IN  IF opened_.ok THEN opened_.entry[1]
                 ELSE Placeholder(Some(encryptedEntry.id), "Encrypted Import Entry")]]

(***************************************************************************)
(* The server's vault: VaultEntryModel over the vault_entries table and    *)
(* the VaultService built on it.  A row is [id, user_id, encrypted_data];  *)
(* the operators take the table and return the new table with the result.  *)
(***************************************************************************)
Row(id, userId, encryptedData) ==
  [id |-> id, user_id |-> userId, encrypted_data |-> encryptedData]

\* db('vault_entries').where({ id, user_id })
WhereIdAndUser(rows, id, userId) == {row \in rows : row.id = id /\ row.user_id = userId}

VaultEntryModel_getById(rows, id, userId) ==
  LET found == WhereIdAndUser(rows, id, userId) IN
  IF found = {} THEN Null ELSE Some(CHOOSE row \in found : TRUE)

VaultEntryModel_create(rows, uuid, entryData) ==
  rows \cup {Row(uuid, entryData.userId, entryData.encryptedData)}

VaultEntryModel_update(rows, id, entryData) ==
  LET hit == WhereIdAndUser(rows, id, entryData.userId) IN
  [rows |-> (rows \ hit) \cup {[row EXCEPT !.encrypted_data = entryData.encryptedData] : row \in hit},
   result |-> hit # {}]

\* Mutant: the row is deleted whoever owns it.
VaultEntryModel_delete_AnyOwner(rows, id, userId) ==
  LET hit == {row \in rows : row.id = id} IN
  [rows |-> rows \ hit, result |-> hit # {}]

VaultEntryModel_delete(rows, id, userId) ==
  LET hit == WhereIdAndUser(rows, id, userId) IN
  [rows |-> rows \ hit, result |-> hit # {}]

MaxUuid == 2

UserIds == {"user-1", "user-2"}

\* Opaque encryptedData strings: "A", "B"
StoredData == {<<65>>, <<66>>}

EntryDTO(row) == [id |-> row.id, encryptedData |-> row.encrypted_data]

Reply(op, entryId, userId, result) ==
  Some([op |-> op, entryId |-> entryId, userId |-> userId, before |-> vault_entries,
        result |-> result])

createEntry(data) ==
  /\ uuids < MaxUuid
  /\ uuids' = uuids + 1
  /\ vault_entries' = VaultEntryModel_create(vault_entries, uuids + 1, data)
  /\ reply' = Reply("createEntry", uuids + 1, data.userId,
                    Some(EntryDTO(Row(uuids + 1, data.userId, data.encryptedData))))
  /\ UNCHANGED <<wire, rng, derived, sealLog, box, opened, masterKey, masterPassword,
                 keySalt, pendingUnlock, requests, authVars, clientVars, otherVars>>

getEntryById(entryId, userId) ==
  /\ LET entry == VaultEntryModel_getById(vault_entries, entryId, userId) IN
     reply' = Reply("getEntryById", entryId, userId,
                    IF entry = Null THEN Null ELSE Some(EntryDTO(entry[1])))
  /\ UNCHANGED <<wire, rng, derived, sealLog, box, opened, masterKey, masterPassword,
                 keySalt, pendingUnlock, requests, authVars, clientVars, vault_entries,
                 uuids, otherVars>>

updateEntry(entryId, data) ==
  /\ LET res == VaultEntryModel_update(vault_entries, entryId, data) IN
     /\ vault_entries' = res.rows
     /\ reply' = Reply("updateEntry", entryId, data.userId, res.result)
  /\ UNCHANGED <<wire, rng, derived, sealLog, box, opened, masterKey, masterPassword,
                 keySalt, pendingUnlock, requests, authVars, clientVars, uuids, otherVars>>

deleteEntry(entryId, userId) ==
  /\ LET res == VaultEntryModel_delete(vault_entries, entryId, userId) IN
     /\ vault_entries' = res.rows
     /\ reply' = Reply("deleteEntry", entryId, userId, res.result)
  /\ UNCHANGED <<wire, rng, derived, sealLog, box, opened, masterKey, masterPassword,
                 keySalt, pendingUnlock, requests, authVars, clientVars, uuids, otherVars>>

EntryData == [userId : UserIds, encryptedData : StoredData]

NextServer ==
  \/ \E data \in EntryData : createEntry(data)
  \/ \E entryId \in 1..MaxUuid, userId \in UserIds : getEntryById(entryId, userId)
  \/ \E entryId \in 1..MaxUuid, data \in EntryData : updateEntry(entryId, data)
  \/ \E entryId \in 1..MaxUuid, userId \in UserIds : deleteEntry(entryId, userId)

SpecServer == Init /\ [][NextServer]_vars

(***************************************************************************)
(* Bulk operations: the client lists or imports the entries sealed so far  *)
(* (one call under test), and the server imports them for a user.          *)
(***************************************************************************)
Kinds == {"intact", "damaged", "undecodable"}

\* A stored string as it comes back: as sealed, with one character of the
\* authenticator replaced, or as "!", which is not base64.
Damage(blob, kind) ==
  CASE kind = "intact" -> blob
    [] kind = "damaged" -> [blob EXCEPT ![60] = IF @ = 65 THEN 66 ELSE 65]
    [] OTHER -> <<33>>

\* The lists the server can hand back: entry i of sealLog under the id "i".
StoredLists ==
  {[i \in 1..Len(sealLog) |-> EncryptedVaultEntry(<<48 + i>>, Damage(sealLog[i].blob, f[i]))] :
     f \in [1..Len(sealLog) -> Kinds]}

Formats == {ExportFormat, "falconpass-v1", "not-falconpass"}

Bulk(op, key, format, input, res) ==
  Some([op |-> op, key |-> key, format |-> format, input |-> input, ok |-> res.ok,
        output |-> res.entries, attempts |-> res.attempts])

GetVaultEntries(r, response) ==
  /\ bulk = Null
  /\ LET input == IF response = Null THEN <<>> ELSE response[1] IN
     bulk' = Bulk("getVaultEntries", r.key, "", input,
                  [ok |-> TRUE, entries |-> getVaultEntries(response, r.key),
                   attempts |-> Len(input)])
  /\ UNCHANGED <<wire, rng, derived, sealLog, box, opened, masterKey, masterPassword,
                 keySalt, pendingUnlock, requests, authVars, thrown, generated, trip,
                 serverVars, otherVars>>

ImportVault(r, importData) ==
  /\ bulk = Null
  /\ LET res == importVault(importData, r.key) IN
     /\ bulk' = Bulk("importVault", r.key,
                     IF importData = Null THEN "" ELSE importData[1].format,
                     IF importData = Null THEN <<>> ELSE importData[1].entries, res)
     /\ thrown' = IF res.ok THEN thrown ELSE thrown \cup {res.error[1]}
  /\ UNCHANGED <<wire, rng, derived, sealLog, box, opened, masterKey, masterPassword,
                 keySalt, pendingUnlock, requests, authVars, generated, trip,
                 serverVars, otherVars>>

ServerFormat == "falconpass-v1"

UnsupportedImport == "Unsupported import format"

\* Mutant: an insert the database rejects is counted as imported.
importEntries_CountsRejected(userId, importData, failing) ==
  /\ reply = Null
  /\ IF importData.format # ServerFormat
     THEN /\ reply' = Reply("importEntries", 0, userId,
                            [ok |-> FALSE, format |-> importData.format,
                             error |-> Some(Thrown("importEntries", "Error", UnsupportedImport)),
                             entries |-> importData.entries, failing |-> {},
                             total |-> 0, imported |-> 0, skipped |-> 0, errors |-> 0])
          /\ UNCHANGED <<vault_entries, uuids>>
     ELSE LET n == Len(importData.entries) IN
          /\ uuids + n <= MaxUuid
          /\ uuids' = uuids + n
          /\ vault_entries' = vault_entries \cup
               {Row(uuids + i, userId, importData.entries[i].encryptedData) :
                  i \in (1..n) \ failing}
          /\ reply' = Reply("importEntries", 0, userId,
                            [ok |-> TRUE, format |-> importData.format, error |-> Null,
                             entries |-> importData.entries, failing |-> failing,
                             total |-> n, imported |-> n,
                             skipped |-> 0, errors |-> 0])
  /\ UNCHANGED <<wire, rng, derived, sealLog, box, opened, masterKey, masterPassword,
                 keySalt, pendingUnlock, requests, authVars, clientVars, otherVars>>

\* VaultService.importEntries on the server; failing is the set of entries
\* whose insert the database rejects.
importEntries(userId, importData, failing) ==
  /\ reply = Null
  /\ IF importData.format # ServerFormat
     THEN /\ reply' = Reply("importEntries", 0, userId,
                            [ok |-> FALSE, format |-> importData.format,
                             error |-> Some(Thrown("importEntries", "Error", UnsupportedImport)),
                             entries |-> importData.entries, failing |-> {},
                             total |-> 0, imported |-> 0, skipped |-> 0, errors |-> 0])
          /\ UNCHANGED <<vault_entries, uuids>>
     ELSE LET n == Len(importData.entries) IN
          /\ uuids + n <= MaxUuid
          /\ uuids' = uuids + n
          /\ vault_entries' = vault_entries \cup
               {Row(uuids + i, userId, importData.entries[i].encryptedData) :
                  i \in (1..n) \ failing}
          /\ reply' = Reply("importEntries", 0, userId,
                            [ok |-> TRUE, format |-> importData.format, error |-> Null,
                             entries |-> importData.entries, failing |-> failing,
                             total |-> n, imported |-> n - Cardinality(failing),
                             skipped |-> 0, errors |-> Cardinality(failing)])
  /\ UNCHANGED <<wire, rng, derived, sealLog, box, opened, masterKey, masterPassword,
                 keySalt, pendingUnlock, requests, authVars, clientVars, otherVars>>

Archives == {[format |-> f, entries |-> l] : f \in Formats, l \in StoredLists}

MaxList == 2

\* Two derivations: the key the entries are sealed under and another one.
SealingKey == DerivedRecord("deriveKeyFromPassword", <<112, 119>>, Null,
                            deriveKeyFromPassword(<<112, 119>>, Null, 1))

OtherKey == DerivedRecord("deriveKeyFromPassword", <<112, 120>>, Null,
                          deriveKeyFromPassword(<<112, 120>>, Null, 2))

\* The vault after the two derivations and up to MaxList createVaultEntry
\* calls under the first key.
InitBulk ==
  /\ \E n \in 0..MaxList : \E es \in [1..n -> Entries] :
       /\ sealLog = [i \in 1..n |->
                       encryptVaultEntry("createVaultEntry", es[i], TempId, SealingKey.key,
                                         SealingKey.salt, 2 + i)]
       /\ rng = 1..(2 + n)
  /\ derived = {SealingKey, OtherKey}
  /\ wire = IdleWire
  /\ box = IdleBox
  /\ opened = IdleOpened
  /\ InitVault
  /\ InitAuth
  /\ InitClient
  /\ InitServer
  /\ InitOther

NextBulk ==
  \/ \E r \in CallerKeys, response \in {Null} \cup {Some(l) : l \in StoredLists} :
       reply = Null /\ GetVaultEntries(r, response)
  \/ \E r \in CallerKeys, importData \in {Null} \cup {Some(a) : a \in Archives} :
       reply = Null /\ ImportVault(r, importData)
  \/ \E userId \in UserIds, importData \in Archives :
       \E failing \in SUBSET (1..Len(importData.entries)) :
         bulk = Null /\ importEntries(userId, importData, failing)

SpecBulk == InitBulk /\ [][NextBulk]_vars

(***************************************************************************)
(* generatePassword.  options holds the four flags; a flag left out of the *)
(* options object is FALSE.                                                *)
(***************************************************************************)
uppercaseChars == [i \in 1..26 |-> 64 + i]

lowercaseChars == [i \in 1..26 |-> 96 + i]

numberChars == [i \in 1..10 |-> 47 + i]

\* !@#$%^&*()_+-=[]{}|;:,.<>?
symbolChars == <<33, 64, 35, 36, 37, 94, 38, 42, 40, 41, 95, 43, 45, 61, 91, 93, 123, 125, 124, 59, 58, 44, 46, 60, 62, 63>>

\* Mutant: the symbols are in the character set whatever the flag says.
generatePassword_SymbolsAlways(length, options, seed) ==
  LET picked == (IF options.uppercase THEN uppercaseChars ELSE <<>>)
                  \o (IF options.lowercase THEN lowercaseChars ELSE <<>>)
                  \o (IF options.numbers THEN numberChars ELSE <<>>)
                  \o symbolChars
      randomBytes == randombytes_buf(seed, length * 2)
  IN  [i \in 1..length |-> picked[(randomBytes[i] % Len(picked)) + 1]]

generatePassword(length, options, seed) ==
  LET picked == (IF options.uppercase THEN uppercaseChars ELSE <<>>)
                  \o (IF options.lowercase THEN lowercaseChars ELSE <<>>)
                  \o (IF options.numbers THEN numberChars ELSE <<>>)
                  \o (IF options.symbols THEN symbolChars ELSE <<>>)
      charset == IF picked = <<>> THEN uppercaseChars \o lowercaseChars \o numberChars
                 ELSE picked
      randomBytes == randombytes_buf(seed, length * 2)
  IN  [i \in 1..length |-> charset[(randomBytes[i] % Len(charset)) + 1]]

MaxPwLen == 3

Options == [uppercase : BOOLEAN, lowercase : BOOLEAN, numbers : BOOLEAN, symbols : BOOLEAN]

GeneratePassword(length, options) ==
  /\ \E seed \in FreshSeeds :
       /\ generated' = Some([length |-> length, options |-> options,
                             password |-> generatePassword(length, options, seed)])
       /\ rng' = rng \cup {seed}
  /\ UNCHANGED <<wire, derived, sealLog, box, opened, masterKey, masterPassword, keySalt,
                 pendingUnlock, requests, authVars, thrown, bulk, trip, serverVars, otherVars>>

NextGenerate == \E length \in 0..MaxPwLen, options \in Options : GeneratePassword(length, options)

SpecGenerate == Init /\ [][NextGenerate]_vars

(***************************************************************************)
(* One entry sealed by encryptVaultEntry and opened by decryptVaultEntry   *)
(* under the same key.                                                     *)
(***************************************************************************)
\* Entries with an empty string, a line feed, a control character, a
\* quotation mark next to backslashes, and a character outside the BMP.
TripEntries ==
  Entries \cup
  {[title |-> <<>>, username |-> <<10, 1>>, password |-> <<92, 34, 92, 92, 117>>],
   [title |-> <<128273>>, username |-> <<123, 34, 58>>, password |-> <<34, 44, 34>>]}

RoundTrip(entry, id, r, salt) ==
  /\ trip = Null
  /\ \E seed \in FreshSeeds :
       LET e == encryptVaultEntry("encryptVaultEntry", entry, id, r.key, salt, seed) IN
       /\ trip' = Some([entry |-> entry, id |-> id, key |-> r.key, salt |-> salt,
                        encryptedData |-> e.blob,
                        result |-> decryptVaultEntry(EncryptedVaultEntry(id, e.blob), r.key)])
       /\ rng' = rng \cup {seed}
  /\ UNCHANGED <<wire, derived, sealLog, box, opened, masterKey, masterPassword, keySalt,
                 pendingUnlock, requests, authVars, thrown, bulk, generated, serverVars, otherVars>>

NextTrip ==
  \/ \E password \in Passwords : DeriveKey(password, Null)
  \/ \E entry \in TripEntries, id \in EntryIds \cup {TempId}, r \in CallerKeys :
       \E salt \in {r.salt, [i \in 1..SALT_BYTES |-> 0]} : RoundTrip(entry, id, r, salt)

SpecTrip == Init /\ [][NextTrip]_vars

(***************************************************************************)
(* btoa / atob as the authentication services use them (arrayToBase64,     *)
(* base64ToArray): the standard alphabet, padded with '=' to a multiple of *)
(* four characters.                                                        *)
(***************************************************************************)
StdChar(v) ==
  CASE v < 62 -> UrlSafeChar(v)
    [] v = 62 -> 43
    [] v = 63 -> 47

StdValue(ch) ==
  CASE ch = 43 -> 62
    [] ch = 47 -> 63
    [] ch = 45 \/ ch = 95 -> -1
    [] OTHER -> UrlSafeValue(ch)

arrayToBase64(a) ==
  [i \in 1..(4 * ((Len(a) + 2) \div 3)) |->
     IF i <= EncodedLen(Len(a))
     THEN StdChar((Group24(a, (i - 1) \div 4) \div Pow64(3 - ((i - 1) % 4))) % 64)
     ELSE 61]

\* atob: Null when it throws.
base64ToArray(s) ==
  LET n == Cardinality({i \in 1..Len(s) : s[i] # 61})
      v(i) == IF i <= n THEN StdValue(s[i]) ELSE 0
      group(g) == v(4 * g + 1) * 262144 + v(4 * g + 2) * 4096 + v(4 * g + 3) * 64 + v(4 * g + 4)
  IN  IF \/ \E i \in 1..n : StdValue(s[i]) < 0
         \/ \E i \in (n + 1)..Len(s) : s[i] # 61
         \/ n % 4 = 1
      THEN Null
      ELSE Some([j \in 1..DecodedLen(n) |-> (group((j - 1) \div 3) \div Pow256(2 - ((j - 1) % 3))) % 256])

\* Buffer.toString('hex')
Hex(a) == [i \in 1..(2 * Len(a)) |->
             IF i % 2 = 1 THEN HexDigit(a[(i + 1) \div 2] \div 16)
             ELSE HexDigit(a[i \div 2] % 16)]

(***************************************************************************)
(* The server's UserService: registerUser, getLoginChallenge, verifyLogin. *)
(* Each returns [ok, error, ...] and the new server state.                 *)
(***************************************************************************)
Emails == {"a@example.com", "b@example.com"}

UserByEmail(email) == {u \in users : u.email = email}

registerUser(userData) ==
  IF UserByEmail(userData.email) # {}
  THEN [ok |-> FALSE, error |-> "User already exists", users |-> users]
  ELSE [ok |-> TRUE, error |-> "",
        users |-> users \cup {[id |-> Cardinality(users) + 1, email |-> userData.email,
                               clientSalt |-> userData.clientSalt,
                               verifier |-> userData.verifier]}]

\* Mutant: the salt returned is not looked up by email.
getLoginChallenge_AnySalt(email, seed) ==
  IF UserByEmail(email) = {}
  THEN [ok |-> FALSE, error |-> "User not found", challenges |-> challenges,
        serverEphemeral |-> <<>>, salt |-> <<>>]
  ELSE LET user == CHOOSE u \in users : TRUE
           serverEphemeral == Hex(randombytes_buf(seed, KEY_BYTES))
           serverSession == Hex(randombytes_buf(seed + 1, KEY_BYTES))
       IN  [ok |-> TRUE, error |-> "",
            challenges |-> {c \in challenges : c.email # email} \cup
                             {[email |-> email, serverEphemeral |-> serverEphemeral,
                               serverSession |-> serverSession]},
            serverEphemeral |-> serverEphemeral, salt |-> user.clientSalt]

\* randomBytes(32).toString('hex'), twice: seed for the ephemeral, the next
\* one for the session.
getLoginChallenge(email, seed) ==
  IF UserByEmail(email) = {}
  THEN [ok |-> FALSE, error |-> "User not found", challenges |-> challenges,
        serverEphemeral |-> <<>>, salt |-> <<>>]
  ELSE LET user == CHOOSE u \in UserByEmail(email) : TRUE
           serverEphemeral == Hex(randombytes_buf(seed, KEY_BYTES))
           serverSession == Hex(randombytes_buf(seed + 1, KEY_BYTES))
       IN  [ok |-> TRUE, error |-> "",
            challenges |-> {c \in challenges : c.email # email} \cup
                             {[email |-> email, serverEphemeral |-> serverEphemeral,
                               serverSession |-> serverSession]},
            serverEphemeral |-> serverEphemeral, salt |-> user.clientSalt]

\* Mutant: the challenge is not cleared.
verifyLogin_KeepsChallenge(email, authResponse) ==
  LET fail(msg) == [ok |-> FALSE, error |-> msg, challenges |-> challenges, tokens |-> tokens] IN
  IF UserByEmail(email) = {} THEN fail("User not found")
  ELSE IF {c \in challenges : c.email = email} = {} THEN fail("No active challenge")
  ELSE IF authResponse.clientProof = <<>> \/ authResponse.clientEphemeral = <<>>
       THEN fail("Invalid credentials")
  ELSE IF Len(authResponse.clientProof) < 32 \/ Len(authResponse.clientEphemeral) < 32
       THEN fail("Invalid credentials")
  ELSE [ok |-> TRUE, error |-> "",
        challenges |-> challenges,
        tokens |-> tokens \cup {(CHOOSE u \in UserByEmail(email) : TRUE).id}]

verifyLogin(email, authResponse) ==
  LET fail(msg) == [ok |-> FALSE, error |-> msg, challenges |-> challenges, tokens |-> tokens] IN
  IF UserByEmail(email) = {} THEN fail("User not found")
  ELSE IF {c \in challenges : c.email = email} = {} THEN fail("No active challenge")
  ELSE IF authResponse.clientProof = <<>> \/ authResponse.clientEphemeral = <<>>
       THEN fail("Invalid credentials")
  ELSE IF Len(authResponse.clientProof) < 32 \/ Len(authResponse.clientEphemeral) < 32
       THEN fail("Invalid credentials")
  ELSE [ok |-> TRUE, error |-> "",
        challenges |-> {c \in challenges : c.email # email},
        tokens |-> tokens \cup {(CHOOSE u \in UserByEmail(email) : TRUE).id}]

(***************************************************************************)
(* The clients: register and login of services/auth.ts, and the            *)
(* AuthService class.  A call to apiService is the request added to        *)
(* requests together with the server's handling of it.                     *)
(***************************************************************************)
AuthRequest(api, email, clientSalt, verifier, clientProof, clientEphemeral) ==
  [api |-> api, email |-> email, clientSalt |-> clientSalt, verifier |-> verifier,
   clientProof |-> clientProof, clientEphemeral |-> clientEphemeral]

\* apiService.register with what the client derived; `by` names the caller.
SendRegister(by, email, password, saltArg, seed) ==
  LET res == deriveKeyFromPassword(password, saltArg, seed)
      body == AuthRequest("register", email, arrayToBase64(res.salt),
                          arrayToBase64(res.key), <<>>, <<>>)
  IN  /\ derived' = derived \cup {DerivedRecord(by, password, saltArg, res)}
      /\ requests' = requests \cup {body}
      /\ users' = registerUser(body).users
      /\ rng' = rng \cup {seed}
      /\ UNCHANGED <<wire, sealLog, box, opened, masterKey, masterPassword, keySalt,
                     pendingUnlock, challenges, logins, tokens, clientVars, serverVars, otherVars>>

\* services/auth.ts register: deriveKeyFromPassword generates the salt.
register(email, password) ==
  \E seed \in FreshSeeds : SendRegister("register", email, password, Null, seed)

\* AuthService.register: generateSalt, then generateVerifier(password, salt).
AuthService_register(email, password) ==
  \E seed \in FreshSeeds :
    SendRegister("AuthService.register", email, password,
                 Some(randombytes_buf(seed, SALT_BYTES)), seed)

\* The first step of both logins: apiService.getLoginChallenge(email).
LoginChallenge(by, email, password) ==
  \E seed \in FreshSeeds :
    /\ seed + 1 \in Seeds
    /\ LET res == getLoginChallenge(email, seed) IN
       /\ requests' = requests \cup {AuthRequest("getLoginChallenge", email, <<>>, <<>>, <<>>, <<>>)}
       /\ challenges' = res.challenges
       /\ rng' = IF res.ok THEN rng \cup {seed, seed + 1} ELSE rng
       /\ logins' = IF res.ok
                    THEN logins \cup {[by |-> by, email |-> email, password |-> password,
                                       serverEphemeral |-> res.serverEphemeral,
                                       salt |-> res.salt, key |-> Null]}
                    ELSE logins
    /\ UNCHANGED <<wire, derived, sealLog, box, opened, masterKey, masterPassword, keySalt,
                   pendingUnlock, users, tokens, clientVars, serverVars, otherVars>>

\* Mutant: the salt is used as received, without base64ToArray.
loginProof_SaltNotDecoded(password, challenge) ==
  LET saltArray == challenge.salt
      res == deriveKeyFromPassword(password, Some(saltArray), 0)
      challengeData == from_string(challenge.serverEphemeral)
      response == [i \in 1..Len(challengeData) |->
                     BitXor(challengeData[i], res.key[((i - 1) % Len(res.key)) + 1])]
  IN  [derived |-> DerivedRecord("login", password, Some(saltArray), res),
       clientProof |-> arrayToBase64(response),
       clientEphemeral |-> arrayToBase64([i \in 1..32 |-> 0])]

\* services/auth.ts login, steps 2 to 4: the challenge XORed with the key.
loginProof(password, challenge) ==
  LET saltArray == base64ToArray(challenge.salt)[1]
      res == deriveKeyFromPassword(password, Some(saltArray), 0)
      challengeData == from_string(challenge.serverEphemeral)
      response == [i \in 1..Len(challengeData) |->
                     BitXor(challengeData[i], res.key[((i - 1) % Len(res.key)) + 1])]
  IN  [derived |-> DerivedRecord("login", password, Some(saltArray), res),
       clientProof |-> arrayToBase64(response),
       clientEphemeral |-> arrayToBase64([i \in 1..32 |-> 0])]

\* AuthService.generateAuthResponse: the key itself is the proof.
generateAuthResponse(password, challenge) ==
  LET salt == base64ToArray(challenge.salt)[1]
      res == deriveKeyFromPassword(password, Some(salt), 0)
  IN  [derived |-> DerivedRecord("AuthService.login", password, Some(salt), res),
       clientProof |-> arrayToBase64(res.key),
       clientEphemeral |-> arrayToBase64([i \in 1..32 |-> 0])]

\* The last step of both logins: apiService.verifyLogin(email, authResponse).
\* The login is kept with the key it derived.
LoginVerify ==
  \E l \in {m \in logins : m.key = Null} :
    LET authResponse == IF l.by = "login" THEN loginProof(l.password, l)
                        ELSE generateAuthResponse(l.password, l)
        res == verifyLogin(l.email, authResponse)
    IN  /\ derived' = derived \cup {authResponse.derived}
        /\ requests' = requests \cup
             {AuthRequest("verifyLogin", l.email, <<>>, <<>>, authResponse.clientProof,
                          authResponse.clientEphemeral)}
        /\ challenges' = res.challenges
        /\ tokens' = res.tokens
        /\ logins' = (logins \ {l}) \cup {[l EXCEPT !.key = Some(authResponse.derived.key)]}
        /\ UNCHANGED <<wire, rng, sealLog, box, opened, masterKey, masterPassword, keySalt,
                       pendingUnlock, users, clientVars, serverVars, otherVars>>

NextAuth ==
  \/ \E email \in Emails, password \in Passwords : register(email, password)
  \/ \E email \in Emails, password \in Passwords : AuthService_register(email, password)
  \/ \E email \in Emails, password \in Passwords : LoginChallenge("login", email, password)
  \/ \E email \in Emails, password \in Passwords : LoginChallenge("AuthService.login", email, password)
  \/ LoginVerify

SpecAuth == Init /\ [][NextAuth]_vars

(***************************************************************************)
(* The server's UserService call by call.  registerUser awaits             *)
(* UserModel.getByEmail and then UserModel.create, so other calls run      *)
(* between the two; getLoginChallenge and verifyLogin run to the end after *)
(* their one await.  userLog keeps what every finished call saw and did.   *)
(***************************************************************************)
MaxCalls == 3

\* The unique index on users.email rejects the insert.
UniqueViolation == "UNIQUE constraint failed: users.email"

UserModel_getByEmail(email) ==
  IF UserByEmail(email) = {} THEN Null ELSE Some(CHOOSE u \in UserByEmail(email) : TRUE)

\* Mutant: the table without its unique index.
UserModel_create_NoUniqueIndex(userData) ==
  [ok |-> TRUE, error |-> "", id |-> Cardinality(users) + 1,
   users |-> users \cup {[id |-> Cardinality(users) + 1, email |-> userData.email,
                          clientSalt |-> userData.clientSalt,
                          verifier |-> userData.verifier]}]

UserModel_create(userData) ==
  IF UserByEmail(userData.email) # {}
  THEN [ok |-> FALSE, error |-> UniqueViolation, id |-> 0, users |-> users]
  ELSE [ok |-> TRUE, error |-> "", id |-> Cardinality(users) + 1,
        users |-> users \cup {[id |-> Cardinality(users) + 1, email |-> userData.email,
                               clientSalt |-> userData.clientSalt,
                               verifier |-> userData.verifier]}]

\* challenges.get(email), as the serverEphemeral it holds.
ChallengeIn(map, email) ==
  IF {c \in map : c.email = email} = {} THEN Null
  ELSE Some((CHOOSE c \in map : c.email = email).serverEphemeral)

ActiveChallenge(email) == ChallengeIn(challenges, email)

NoResult == [userId |-> 0, serverEphemeral |-> <<>>, salt |-> <<>>, token |-> FALSE]

UserCall(op, email, ok, error, userAtCall, usersAfter, challengeAfter, clientProof, result) ==
  [op |-> op, email |-> email, ok |-> ok, error |-> error, userAtCall |-> userAtCall,
   usersBefore |-> users, usersAfter |-> usersAfter,
   challengeBefore |-> ActiveChallenge(email), challengeAfter |-> challengeAfter,
   clientProof |-> clientProof, result |-> result]

CallsStarted == Len(userLog) + Cardinality(registering)

\* What a registering client sends: the salt and the encoded key.
UserData(email, password, seed) ==
  LET res == deriveKeyFromPassword(password, Null, seed)
  IN  [email |-> email, clientSalt |-> arrayToBase64(res.salt),
       verifier |-> arrayToBase64(res.key)]

\* The password every user of this specification registers with.
MasterPassword == <<112, 119>>

\* registerUser up to the end of its first await.
RegisterUserLookup(userData) ==
  /\ CallsStarted < MaxCalls
  /\ LET existingUser == UserModel_getByEmail(userData.email) IN
     IF existingUser # Null
     THEN /\ userLog' = Append(userLog,
               UserCall("registerUser", userData.email, FALSE, "User already exists",
                        existingUser, users, ActiveChallenge(userData.email), <<>>, NoResult))
          /\ UNCHANGED registering
     ELSE /\ registering' = registering \cup {[call |-> CallsStarted + 1, userData |-> userData]}
          /\ UNCHANGED userLog
  /\ UNCHANGED <<wire, rng, derived, sealLog, box, opened, masterKey, masterPassword, keySalt,
                 pendingUnlock, requests, authVars, clientVars, serverVars, webauthnVars, sessionVars, storeVars>>

\* registerUser from UserModel.create to its return.
RegisterUserCreate(c) ==
  LET res == UserModel_create(c.userData) IN
  /\ users' = res.users
  /\ registering' = registering \ {c}
  /\ userLog' = Append(userLog,
       UserCall("registerUser", c.userData.email, res.ok, res.error, Null, res.users,
                ActiveChallenge(c.userData.email), <<>>, [NoResult EXCEPT !.userId = res.id]))
  /\ UNCHANGED <<wire, rng, derived, sealLog, box, opened, masterKey, masterPassword, keySalt,
                 pendingUnlock, requests, challenges, logins, tokens, clientVars, serverVars, webauthnVars, sessionVars, storeVars>>

\* The random bytes of the n-th challenge.
ChallengeSeed ==
  2 * Cardinality({i \in 1..Len(userLog) : userLog[i].op = "getLoginChallenge" /\ userLog[i].ok}) + 1

GetLoginChallenge(email) ==
  /\ CallsStarted < MaxCalls
  /\ LET res == getLoginChallenge(email, ChallengeSeed)
         after == ChallengeIn(res.challenges, email)
     IN  /\ challenges' = res.challenges
         /\ userLog' = Append(userLog,
              UserCall("getLoginChallenge", email, res.ok, res.error,
                       UserModel_getByEmail(email), users, after, <<>>,
                       [NoResult EXCEPT !.serverEphemeral = res.serverEphemeral,
                                        !.salt = res.salt]))
  /\ UNCHANGED <<wire, rng, derived, sealLog, box, opened, masterKey, masterPassword, keySalt,
                 pendingUnlock, requests, users, logins, tokens, clientVars, serverVars,
                 registering, webauthnVars, sessionVars, storeVars>>

\* The proofs a caller can submit: the response login() computes from a
\* password, 44 arbitrary characters, a short string, nothing.
Proofs(email) ==
  {[i \in 1..44 |-> 65], <<65>>, <<>>} \cup
  {loginProof(p, [salt |-> u.clientSalt, serverEphemeral |-> c.serverEphemeral]).clientProof :
     p \in Passwords, u \in UserByEmail(email), c \in {d \in challenges : d.email = email}}

VerifyLogin(email, clientProof) ==
  /\ CallsStarted < MaxCalls
  /\ LET authResponse == [clientProof |-> clientProof,
                          clientEphemeral |-> arrayToBase64([i \in 1..32 |-> 0])]
         res == verifyLogin(email, authResponse)
         after == ChallengeIn(res.challenges, email)
         user == UserModel_getByEmail(email)
     IN  /\ challenges' = res.challenges
         /\ tokens' = res.tokens
         /\ userLog' = Append(userLog,
              UserCall("verifyLogin", email, res.ok, res.error, user, users, after, clientProof,
                       IF res.ok THEN [NoResult EXCEPT !.userId = user[1].id, !.token = TRUE]
                       ELSE NoResult))
  /\ UNCHANGED <<wire, rng, derived, sealLog, box, opened, masterKey, masterPassword, keySalt,
                 pendingUnlock, requests, users, logins, clientVars, serverVars, registering, webauthnVars, sessionVars, storeVars>>

NextUser ==
  \/ \E email \in Emails :
       RegisterUserLookup(UserData(email, MasterPassword, CallsStarted + 1))
  \/ \E c \in registering : RegisterUserCreate(c)
  \/ \E email \in Emails : GetLoginChallenge(email)
  \/ \E email \in Emails : \E clientProof \in Proofs(email) : VerifyLogin(email, clientProof)

\* One user has registered before the calls under observation start.
RegisteredUser ==
  LET userData == UserData("a@example.com", MasterPassword, 0) IN
  [id |-> 1, email |-> userData.email, clientSalt |-> userData.clientSalt,
   verifier |-> userData.verifier]

InitRegistered ==
  /\ users = {RegisteredUser}
  /\ challenges = {}
  /\ logins = {}
  /\ tokens = {}
  /\ wire = IdleWire
  /\ InitCrypto
  /\ InitVault
  /\ InitClient
  /\ InitServer
  /\ InitOther

SpecUser == InitRegistered /\ [][NextUser]_vars

(***************************************************************************)
(* The server's WebAuthnService: generateAuthenticationOptions and         *)
(* verifyAuthentication.  What @simplewebauthn/server answers for a        *)
(* response is an input: verified with a new counter, not verified, or an  *)
(* exception.                                                              *)
(***************************************************************************)
MaxCounter == 2

WebAuthnUserIds == {1, 2}

CredentialIds == {"cred-1", "cred-2"}

WebAuthnChallenges == {"challenge-1", "challenge-2"}

Verifications ==
  {[kind |-> "verified", newCounter |-> n] : n \in 0..MaxCounter} \cup
  {[kind |-> "notVerified", newCounter |-> 0], [kind |-> "throws", newCounter |-> 0]}

UserModel_getById(id) ==
  IF {u \in users : u.id = id} = {} THEN Null ELSE Some(CHOOSE u \in users : u.id = id)

WebAuthnCredentialModel_getByUserId(userId) ==
  {c \in webauthn_credentials : c.userId = userId}

WebAuthnCredentialModel_getByCredentialId(credentialId) ==
  IF {c \in webauthn_credentials : c.credentialId = credentialId} = {} THEN Null
  ELSE Some(CHOOSE c \in webauthn_credentials : c.credentialId = credentialId)

WebAuthnCredentialModel_update(id, counter) ==
  {IF c.id = id THEN [c EXCEPT !.counter = counter] ELSE c : c \in webauthn_credentials}

\* challengeStore.get(userId)
ExpectedChallenge(userId) ==
  IF {c \in challengeStore : c.userId = userId} = {} THEN Null
  ELSE Some((CHOOSE c \in challengeStore : c.userId = userId).challenge)

WebAuthnOutcome(threw, error, result, credentials, store, issued) ==
  [thrown |-> threw, error |-> error, result |-> result, webauthn_credentials |-> credentials,
   challengeStore |-> store, tokens |-> issued]

WebAuthnThrows(error) ==
  WebAuthnOutcome(TRUE, error, Null, webauthn_credentials, challengeStore, tokens)

generateAuthenticationOptions(userId, challenge) ==
  IF UserModel_getById(userId) = Null THEN WebAuthnThrows("User not found")
  ELSE IF WebAuthnCredentialModel_getByUserId(userId) = {}
       THEN WebAuthnThrows("No WebAuthn credentials found for this user")
  ELSE WebAuthnOutcome(FALSE, "", Some([challenge |-> challenge]), webauthn_credentials,
                       {c \in challengeStore : c.userId # userId} \cup
                         {[userId |-> userId, challenge |-> challenge]},
                       tokens)

\* The AuthResult returned on success has userId, username and token, and no
\* member named verified.
verifyAuthentication(userId, credentialId, verification) ==
  IF UserModel_getById(userId) = Null THEN WebAuthnThrows("User not found")
  ELSE IF ExpectedChallenge(userId) = Null THEN WebAuthnThrows("Challenge not found")
  ELSE IF WebAuthnCredentialModel_getByCredentialId(credentialId) = Null
       THEN WebAuthnThrows("Credential not found")
  ELSE IF verification.kind = "verified"
       THEN LET storedCredential == WebAuthnCredentialModel_getByCredentialId(credentialId)[1] IN
            WebAuthnOutcome(FALSE, "",
                            Some([verified |-> Null, userId |-> userId, token |-> TRUE]),
                            WebAuthnCredentialModel_update(storedCredential.id,
                                                           verification.newCounter),
                            {c \in challengeStore : c.userId # userId},
                            tokens \cup {userId})
  ELSE WebAuthnThrows("Authentication failed")

WebAuthnReply(op, userId, credentialId, verification, res) ==
  Some([op |-> op, userId |-> userId, credentialId |-> credentialId,
        verification |-> verification, thrown |-> res.thrown, error |-> res.error,
        result |-> res.result, before |-> [webauthn_credentials |-> webauthn_credentials,
                                           challengeStore |-> challengeStore,
                                           tokens |-> tokens]])

GenerateAuthenticationOptions(userId, challenge) ==
  LET res == generateAuthenticationOptions(userId, challenge) IN
  /\ challengeStore' = res.challengeStore
  /\ webauthnReply' = WebAuthnReply("generateAuthenticationOptions", userId, "",
                                    [kind |-> "", newCounter |-> 0], res)
  /\ UNCHANGED <<wire, rng, derived, sealLog, box, opened, masterKey, masterPassword, keySalt,
                 pendingUnlock, requests, authVars, clientVars, serverVars, userVars,
                 webauthn_credentials, sessionVars, storeVars>>

VerifyAuthentication(userId, credentialId, verification) ==
  LET res == verifyAuthentication(userId, credentialId, verification) IN
  /\ challengeStore' = res.challengeStore
  /\ webauthn_credentials' = res.webauthn_credentials
  /\ tokens' = res.tokens
  /\ webauthnReply' = WebAuthnReply("verifyAuthentication", userId, credentialId, verification, res)
  /\ UNCHANGED <<wire, rng, derived, sealLog, box, opened, masterKey, masterPassword, keySalt,
                 pendingUnlock, requests, users, challenges, logins, clientVars, serverVars,
                 userVars, sessionVars, storeVars>>

\* One user, with one registered credential.
InitWebAuthnUser ==
  /\ users = {RegisteredUser}
  /\ challenges = {}
  /\ logins = {}
  /\ tokens = {}
  /\ webauthn_credentials = {[id |-> 1, userId |-> 1, credentialId |-> "cred-1", counter |-> 0]}
  /\ challengeStore = {}
  /\ webauthnReply = Null
  /\ wire = IdleWire
  /\ InitCrypto
  /\ InitVault
  /\ InitClient
  /\ InitServer
  /\ InitUser
  /\ InitSession
  /\ InitStore

NextWebAuthn ==
  \/ \E userId \in WebAuthnUserIds, challenge \in WebAuthnChallenges :
       GenerateAuthenticationOptions(userId, challenge)
  \/ \E userId \in WebAuthnUserIds, credentialId \in CredentialIds, verification \in Verifications :
       VerifyAuthentication(userId, credentialId, verification)

SpecWebAuthn == InitWebAuthnUser /\ [][NextWebAuthn]_vars

(***************************************************************************)
(* The client's session: AuthService (isAuthenticated, currentUser) and    *)
(* useAuthStore, with login and logout split at their await of the server. *)
(* apiService.request catches every failure and resolves with { error }.   *)
(***************************************************************************)
SessionOwners == {"AuthService", "useAuthStore"}

\* What apiService resolves with: data, or one of its errors.
ApiResponses == {[error |-> Null], [error |-> Some("HTTP 500")], [error |-> Some("Network error")]}

SessionUser == [id |-> "user-1", username |-> "alice"]

SessionStart(by, op) ==
  /\ \A c \in sessionCalls : ~(c.by = by /\ c.op = op)
  /\ sessionCalls' = sessionCalls \cup {[by |-> by, op |-> op]}
  /\ authStore' = IF by = "useAuthStore"
                  THEN IF op = "login" THEN [authStore EXCEPT !.isLoading = TRUE, !.error = Null]
                       ELSE [authStore EXCEPT !.isLoading = TRUE]
                  ELSE authStore
  /\ UNCHANGED <<wire, rng, derived, sealLog, box, opened, masterKey, masterPassword, keySalt,
                 pendingUnlock, requests, authVars, clientVars, serverVars, userVars,
                 webauthnVars, authService, sessionDone, storeVars>>

\* AuthService.login after apiService.verifyLogin has resolved.
AuthService_login(response) ==
  IF response.error # Null THEN authService
  ELSE [isAuthenticated |-> TRUE, currentUser |-> Some(SessionUser)]

\* useAuthStore.login after authService.login has settled.
useAuthStore_login(response) ==
  IF response.error # Null
  THEN [authStore EXCEPT !.isLoading = FALSE, !.error = response.error]
  ELSE [authStore EXCEPT !.user = Some(SessionUser), !.isAuthenticated = TRUE,
                         !.isLoading = FALSE]

LoginFinish(by, response) ==
  /\ [by |-> by, op |-> "login"] \in sessionCalls
  /\ sessionCalls' = sessionCalls \ {[by |-> by, op |-> "login"]}
  /\ authService' = IF by = "AuthService" THEN AuthService_login(response) ELSE authService
  /\ authStore' = IF by = "useAuthStore" THEN useAuthStore_login(response) ELSE authStore
  /\ UNCHANGED <<wire, rng, derived, sealLog, box, opened, masterKey, masterPassword, keySalt,
                 pendingUnlock, requests, authVars, clientVars, serverVars, userVars,
                 webauthnVars, sessionDone, storeVars>>

\* Mutant: the session is cleared only when the server call succeeded.
AuthService_logout_OnSuccess(response) ==
  IF response.error # Null THEN authService
  ELSE [isAuthenticated |-> FALSE, currentUser |-> Null]

\* AuthService.logout after apiService.logout has settled: the finally block.
AuthService_logout(response) ==
  [isAuthenticated |-> FALSE, currentUser |-> Null]

\* useAuthStore.logout after authService.logout has resolved; logout() of
\* services/auth.ts swallows every error, so the catch branch is never taken.
useAuthStore_logout(response) ==
  [InitialAuthState EXCEPT !.isLoading = FALSE]

LogoutFinish(by, response) ==
  /\ [by |-> by, op |-> "logout"] \in sessionCalls
  /\ sessionCalls' = sessionCalls \ {[by |-> by, op |-> "logout"]}
  /\ authService' = IF by = "AuthService" THEN AuthService_logout(response) ELSE authService
  /\ authStore' = IF by = "useAuthStore" THEN useAuthStore_logout(response) ELSE authStore
  /\ sessionDone' = Some([by |-> by, response |-> response,
                          wasAuthenticated |-> IF by = "AuthService"
                                               THEN authService.isAuthenticated
                                               ELSE authStore.isAuthenticated,
                          isAuthenticated |-> IF by = "AuthService"
                                              THEN authService'.isAuthenticated
                                              ELSE authStore'.isAuthenticated,
                          user |-> IF by = "AuthService" THEN authService'.currentUser
                                   ELSE authStore'.user])
  /\ UNCHANGED <<wire, rng, derived, sealLog, box, opened, masterKey, masterPassword, keySalt,
                 pendingUnlock, requests, authVars, clientVars, serverVars, userVars,
                 webauthnVars, storeVars>>

NextSession ==
  \/ \E by \in SessionOwners, op \in {"login", "logout"} : SessionStart(by, op)
  \/ \E by \in SessionOwners, response \in ApiResponses : LoginFinish(by, response)
  \/ \E by \in SessionOwners, response \in ApiResponses : LogoutFinish(by, response)

SpecSession == Init /\ [][NextSession]_vars

(***************************************************************************)
(* useVaultStore: fetchEntries, createEntry, updateEntry and deleteEntry.  *)
(* Each action sets isLoading, awaits the vault service (the request       *)
(* travels, the server handles it, the answer travels back) and then       *)
(* applies its set().  An entry is its id and its opaque content; sealing   *)
(* and opening are left to the specifications above.                       *)
(***************************************************************************)
MaxStoreCalls == 3

StoreUser == "user-1"

StoreOps == {"fetchEntries", "createEntry", "updateEntry", "deleteEntry"}

StoreCall(call, op, id, data, stage, ok, result) ==
  [call |-> call, op |-> op, id |-> id, data |-> data, stage |-> stage, ok |-> ok,
   result |-> result]

\* The action up to its await: set({ isLoading: true, error: null }).
StoreStart(op, id, data) ==
  /\ Cardinality(storeCalls) < MaxStoreCalls
  /\ vaultStore' = [vaultStore EXCEPT !.isLoading = TRUE, !.error = Null]
  /\ storeCalls' = storeCalls \cup
       {StoreCall(Cardinality(storeCalls) + 1, op, id, data, "sent", FALSE, <<>>)}
  /\ UNCHANGED <<wire, rng, derived, sealLog, box, opened, masterKey, masterPassword, keySalt,
                 pendingUnlock, requests, authVars, clientVars, serverVars, userVars,
                 webauthnVars, sessionVars>>

\* The rows of the user as the list the service returns, by id.
EntriesOf(rows) ==
  LET mine == {row \in rows : row.user_id = StoreUser}
      ids == {row.id : row \in mine}
      nth(i) == CHOOSE x \in ids : Cardinality({y \in ids : y < x}) = i - 1
  IN  [i \in 1..Cardinality(ids) |->
         [id |-> nth(i), data |-> (CHOOSE row \in mine : row.id = nth(i)).encrypted_data]]

\* The server handles the request of a call and the service resolves or
\* rejects with what it answered.
StoreServe(c) ==
  /\ c.stage = "sent"
  /\ c.op = "createEntry" => uuids < MaxUuid
  /\ LET entryData == [userId |-> StoreUser, encryptedData |-> c.data]
         updated == VaultEntryModel_update(vault_entries, c.id, entryData)
         deleted == VaultEntryModel_delete(vault_entries, c.id, StoreUser)
         answer(ok, result) == (storeCalls \ {c}) \cup
                                 {[c EXCEPT !.stage = "answered", !.ok = ok, !.result = result]}
     IN  CASE c.op = "fetchEntries" ->
                /\ storeCalls' = answer(TRUE, EntriesOf(vault_entries))
                /\ UNCHANGED <<vault_entries, uuids>>
           [] c.op = "createEntry" ->
                /\ vault_entries' = VaultEntryModel_create(vault_entries, uuids + 1, entryData)
                /\ uuids' = uuids + 1
                /\ storeCalls' = answer(TRUE, <<[id |-> uuids + 1, data |-> c.data]>>)
           [] c.op = "updateEntry" ->
                /\ vault_entries' = updated.rows
                /\ storeCalls' = answer(updated.result,
                                        IF updated.result THEN <<[id |-> c.id, data |-> c.data]>>
                                        ELSE <<>>)
                /\ UNCHANGED uuids
           [] c.op = "deleteEntry" ->
                /\ vault_entries' = deleted.rows
                /\ storeCalls' = answer(deleted.result, <<>>)
                /\ UNCHANGED uuids
  /\ UNCHANGED <<wire, rng, derived, sealLog, box, opened, masterKey, masterPassword, keySalt,
                 pendingUnlock, requests, authVars, clientVars, reply, userVars,
                 webauthnVars, sessionVars, vaultStore>>

\* set({ entries, isLoading: false })
useVaultStore_fetchEntries(state, c) ==
  [state EXCEPT !.entries = c.result, !.isLoading = FALSE]

useVaultStore_createEntry(state, c) ==
  IF c.ok THEN [state EXCEPT !.entries = Append(state.entries, c.result[1]), !.isLoading = FALSE]
  ELSE [state EXCEPT !.isLoading = FALSE, !.error = Some("Failed to create vault entry")]

useVaultStore_updateEntry(state, c) ==
  IF c.ok
  THEN [state EXCEPT !.entries = [i \in 1..Len(state.entries) |->
                                    IF state.entries[i].id = c.id THEN c.result[1]
                                    ELSE state.entries[i]],
                     !.isLoading = FALSE]
  ELSE [state EXCEPT !.isLoading = FALSE, !.error = Some("Failed to update vault entry")]

useVaultStore_deleteEntry(state, c) ==
  LET others(e) == e.id # c.id IN
  IF c.ok THEN [state EXCEPT !.entries = SelectSeq(state.entries, others), !.isLoading = FALSE]
  ELSE [state EXCEPT !.isLoading = FALSE]

\* The action after its await.
StoreFinish(c) ==
  /\ c.stage = "answered"
  /\ vaultStore' = CASE c.op = "fetchEntries" -> useVaultStore_fetchEntries(vaultStore, c)
                     [] c.op = "createEntry" -> useVaultStore_createEntry(vaultStore, c)
                     [] c.op = "updateEntry" -> useVaultStore_updateEntry(vaultStore, c)
                     [] c.op = "deleteEntry" -> useVaultStore_deleteEntry(vaultStore, c)
  /\ storeCalls' = (storeCalls \ {c}) \cup {[c EXCEPT !.stage = "done"]}
  /\ UNCHANGED <<wire, rng, derived, sealLog, box, opened, masterKey, masterPassword, keySalt,
                 pendingUnlock, requests, authVars, clientVars, serverVars, userVars,
                 webauthnVars, sessionVars>>

NextStore ==
  \/ \E op \in StoreOps, id \in 1..MaxUuid, data \in StoredData :
       /\ op \in {"fetchEntries", "createEntry"} => id = 1
       /\ op \in {"fetchEntries", "deleteEntry"} => data = <<65>>
       /\ StoreStart(op, IF op \in {"fetchEntries", "createEntry"} THEN 0 ELSE id, data)
  \/ \E c \in storeCalls : StoreServe(c)
  \/ \E c \in storeCalls : StoreFinish(c)

SpecStore == Init /\ [][NextStore]_vars

(***************************************************************************)
(* Properties.                                                             *)
(***************************************************************************)
\* C1: deserializeEncryptedData(serializeEncryptedData(c, n, s)) returns exactly
\* (c, n, s) for a 24-byte nonce and a 16-byte salt, and the decoded blob is
\* the salt at bytes 0..15, the nonce at bytes 16..39 and the ciphertext from
\* byte 40 to the end.
C1_SerializeRoundTrip ==
  /\ wire.stage \in {"serialized", "deserialized"} =>
       LET decoded == from_base64(wire.serialized) IN
       /\ decoded # Null
       /\ Len(decoded[1]) = SALT_BYTES + NONCE_BYTES + Len(wire.ciphertext)
       /\ \A i \in 1..SALT_BYTES : decoded[1][i] = wire.salt[i]
       /\ \A i \in 1..NONCE_BYTES : decoded[1][SALT_BYTES + i] = wire.nonce[i]
       /\ \A i \in 1..Len(wire.ciphertext) :
            decoded[1][SALT_BYTES + NONCE_BYTES + i] = wire.ciphertext[i]
  /\ wire.stage = "deserialized" =>
       /\ wire.out.ok
       /\ wire.out.ciphertext = wire.ciphertext
       /\ wire.out.nonce = wire.nonce
       /\ wire.out.salt = wire.salt

C1_Witness ==
  /\ wire.stage = "deserialized"
  /\ Len(wire.salt) = SALT_BYTES
  /\ Len(wire.nonce) = NONCE_BYTES
  /\ Len(wire.ciphertext) > 0
  /\ wire.salt # [i \in 1..SALT_BYTES |-> 0]

\* C2: decryptData applied to the ciphertext and nonce that encryptData(p, k)
\* returned, with the same key k, returns exactly p.
C2_SealOpenRoundTrip ==
  (/\ opened.stage = "done"
   /\ opened.ciphertext = box.ciphertext
   /\ opened.nonce = box.nonce
   /\ opened.key = box.key)
  => (opened.result.ok /\ opened.result.value = box.plain)

C2_Witness ==
  /\ opened.stage = "done"
  /\ opened.tamper = "none"
  /\ opened.result.ok
  /\ Len(from_string(box.plain)) > Len(box.plain)

\* C3: when the ciphertext (authenticator included), the nonce or the key
\* handed to decryptData differs from what encryptData produced, decryptData
\* fails with the decryption error; no call returns a plaintext other than
\* the one sealed.
C3_TamperDetected ==
  opened.stage = "done" =>
    /\ (opened.ciphertext # box.ciphertext \/ opened.nonce # box.nonce \/ opened.key # box.key)
         => (~opened.result.ok /\ opened.result.error = DecryptionFailed)
    /\ opened.result.ok => opened.result.value = box.plain

C3_Witness ==
  /\ opened.stage = "done"
  /\ opened.tamper = "ciphertext"
  /\ SubSeq(opened.ciphertext, 1, MAC_BYTES) = SubSeq(box.ciphertext, 1, MAC_BYTES)
  /\ opened.ciphertext # box.ciphertext
  /\ ~opened.result.ok

\* C4: encryptData draws its own nonce, so over any sequence of create, update
\* and import operations no two envelopes sealed under one key carry the same
\* nonce; an update's envelope has a nonce different from every earlier one.
C4_NonceNeverReused ==
  \A i \in 1..Len(sealLog), j \in 1..Len(sealLog) :
    (i # j /\ sealLog[i].key = sealLog[j].key) =>
      /\ sealLog[i].nonce # sealLog[j].nonce
      /\ deserializeEncryptedData(sealLog[i].blob).nonce #
           deserializeEncryptedData(sealLog[j].blob).nonce

C4_Witness ==
  \E i \in 1..Len(sealLog), j \in 1..Len(sealLog) :
    /\ i < j
    /\ sealLog[i].op = "createVaultEntry"
    /\ sealLog[j].op = "updateVaultEntry"
    /\ sealLog[i].key = sealLog[j].key
    /\ sealLog[i].nonce # sealLog[j].nonce
    /\ deserializeEncryptedData(sealLog[j].blob).nonce = sealLog[j].nonce

\* C5: no request sent by registration or login carries the key returned by
\* deriveKeyFromPassword, or its base64 encoding, in any of its fields.
C5_KeyNeverTransmitted ==
  \A q \in requests, r \in derived :
    /\ q.verifier # r.key
    /\ q.clientProof # r.key
    /\ base64ToArray(q.verifier) # Some(r.key)
    /\ base64ToArray(q.clientProof) # Some(r.key)

\* C6: every encryptedData the client sends for a vault entry is the
\* serialized envelope of a sealing of that entry; no request carries the
\* entry's plaintext.
C6_OnlyEnvelopesSent ==
  \A q \in requests :
    /\ \E i \in 1..Len(sealLog) : sealLog[i].blob = q.encryptedData
    /\ \A entry \in Entries, id \in EntryIds : q.encryptedData # JSONStringify(entry, id)

\* C7: deriveKeyFromPassword returns the salt it was given, and two calls with
\* the same password and the same salt return the same key.
C7_DerivationDeterministic ==
  \A r1 \in derived, r2 \in derived :
    /\ r1.saltArg # Null => r1.salt = r1.saltArg[1]
    /\ (r1.password = r2.password /\ r1.salt = r2.salt) => r1.key = r2.key

C7_Witness ==
  \E r1 \in derived, r2 \in derived :
    /\ r1.saltArg = Null
    /\ r2.saltArg = Some(r1.salt)
    /\ r1.password = r2.password
    /\ r1.key = r2.key

\* C8: unlocking with setMasterPassword twice with the same master password
\* yields the same derived key.
C8_UnlockKeyStable ==
  \A r1 \in derived, r2 \in derived :
    (/\ r1.by = "setMasterPassword"
     /\ r2.by = "setMasterPassword"
     /\ r1.password = r2.password)
    => r1.key = r2.key

\* C9: the salt in the first 16 bytes of every envelope a session produces is
\* the salt with which the session's sealing key was derived.
C9_EnvelopeSaltIsKeySalt ==
  \A i \in 1..Len(sealLog) :
    deserializeEncryptedData(sealLog[i].blob).salt = sealLog[i].keySalt

\* C10: an envelope sealed with the key derived from one password cannot be
\* opened with the key derived from a different password and the same salt:
\* decryptData raises the decryption error.
C10_WrongPasswordRejected ==
  (/\ opened.stage = "done"
   /\ opened.tamper = "otherKey"
   /\ opened.keySalt = box.keySalt
   /\ opened.password # box.password)
  => (~opened.result.ok /\ opened.result.error = DecryptionFailed)

C10_Witness ==
  /\ opened.stage = "done"
  /\ opened.tamper = "otherKey"
  /\ opened.keySalt = box.keySalt
  /\ opened.password # box.password
  /\ opened.ciphertext = box.ciphertext
  /\ ~opened.result.ok

\* C11: deserializeEncryptedData fails whenever the decoded blob is shorter
\* than 40 bytes; it returns no salt, nonce or ciphertext from such a blob.
C11_ShortBlobRejected ==
  (/\ wire.stage = "deserializedStored"
   /\ from_base64(wire.serialized) # Null
   /\ Len(from_base64(wire.serialized)[1]) < SALT_BYTES + NONCE_BYTES)
  => ~wire.out.ok

\* C12: once setMasterPassword has returned (no unlock is in progress), the
\* session holds no master password.
C12_PasswordTransient ==
  pendingUnlock = {} => masterPassword = Null

\* C13: the session key is written once per unlock: while the session is
\* unlocked no step replaces the key with another one; clearMasterPassword
\* leaves no key and isUnlocked false; and sealing through a locked session
\* raises the vault-locked error and sends no request.
C13_KeyWriteOnceClearedOnLock ==
  [][/\ (masterKey # Null /\ masterKey' # Null) => masterKey' = masterKey
     /\ clearMasterPassword => (masterKey' = Null /\ ~isUnlocked')
     /\ (~isUnlocked /\ \E entry \in Entries, id \in EntryIds :
                          VaultService_updateVaultEntry(id, entry))
          => /\ requests' = requests
             /\ sealLog' = sealLog
             /\ \E e \in thrown' : e.message = VaultLocked]_vars

\* C14: importing an archive whose format tag is not the recognised one
\* raises an error of the unsupported-format type, before any entry is
\* decrypted (client) or stored (server).
C14_UnknownFormatTypedError ==
  /\ (bulk # Null /\ bulk[1].op = "importVault" /\ bulk[1].format # ExportFormat) =>
       /\ ~bulk[1].ok
       /\ bulk[1].attempts = 0
       /\ \E e \in thrown : e.op = "importVault" /\ e.type = "UnsupportedFormatError"
  /\ (reply # Null /\ reply[1].op = "importEntries"
        /\ reply[1].result.format # ServerFormat) =>
       /\ ~reply[1].result.ok
       /\ vault_entries = reply[1].before
       /\ reply[1].result.error[1].type = "UnsupportedFormatError"

C16_FailureCauseHidden ==
  (opened.stage = "done" /\ ~opened.result.ok) =>
    /\ opened.tamper \in {"ciphertext", "nonce"} =>
         \A pos \in {1, KEY_BYTES} :
           decryptData(box.ciphertext, box.nonce, FlipBit(box.key, pos, 0)) = opened.result
    /\ opened.tamper \in {"key", "otherKey"} =>
         \A pos \in {1, Len(box.ciphertext)} :
           decryptData(FlipBit(box.ciphertext, pos, 0), box.nonce, box.key) = opened.result

C16_Witness ==
  /\ opened.stage = "done"
  /\ opened.tamper = "key"
  /\ ~opened.result.ok
  /\ Len(box.plain) > 0
  /\ ~decryptData(FlipBit(box.ciphertext, Len(box.ciphertext), 0), box.nonce, box.key).ok

\* C17: deriveKeyFromPassword never returns a key for a salt that is not 16
\* bytes long.
C17_MalformedSaltRejected ==
  \A r \in derived :
    (r.saltArg # Null /\ Len(r.saltArg[1]) # SALT_BYTES) => Len(r.key) # KEY_BYTES

\* C18: generatePassword(length, flags) returns exactly `length` characters,
\* each from the union of the character sets whose flag is true, or an
\* upper-case letter, lower-case letter or digit when every flag is false.
C18_PasswordFromChosenSets ==
  generated # Null =>
    LET g == generated[1]
        upper == 65..90
        lower == 97..122
        digits == 48..57
        symbols == {symbolChars[i] : i \in 1..Len(symbolChars)}
        chosen == (IF g.options.uppercase THEN upper ELSE {})
                    \cup (IF g.options.lowercase THEN lower ELSE {})
                    \cup (IF g.options.numbers THEN digits ELSE {})
                    \cup (IF g.options.symbols THEN symbols ELSE {})
        allowed == IF chosen = {} THEN upper \cup lower \cup digits ELSE chosen
    IN  /\ Len(g.password) = g.length
        /\ \A i \in 1..Len(g.password) : g.password[i] \in allowed

C18_Witness ==
  /\ generated # Null
  /\ generated[1].options = [uppercase |-> FALSE, lowercase |-> FALSE, numbers |-> TRUE,
                             symbols |-> FALSE]
  /\ generated[1].length = MaxPwLen
  /\ \A i \in 1..MaxPwLen : generated[1].password[i] \in 48..57
  /\ \E i \in 1..MaxPwLen, j \in 1..MaxPwLen : generated[1].password[i] # generated[1].password[j]

\* C19: decryptVaultEntry(encryptVaultEntry(e, k, s), k) returns an entry
\* equal to e, for every entry e, key k and salt s.
C19_EntryRoundTrip ==
  trip # Null =>
    /\ trip[1].result.ok
    /\ trip[1].result.entry =
         Some(VaultEntryObject(Some(trip[1].id), Null, Null, Some(trip[1].entry.title),
                               Some(trip[1].entry.username), Some(trip[1].entry.password)))

C19_Witness ==
  /\ trip # Null
  /\ trip[1].entry.password = <<92, 34, 92, 92, 117>>
  /\ trip[1].entry.username = <<10, 1>>
  /\ trip[1].result.ok
  /\ trip[1].result.entry[1].password = Some(<<92, 34, 92, 92, 117>>)

\* C20: when the entry exists but belongs to a user other than the caller,
\* getEntryById returns null, updateEntry changes no row, and deleteEntry
\* returns false and deletes no row.
C20_OwnerIsolation ==
  reply # Null =>
    LET r == reply[1] IN
    (\E row \in r.before : row.id = r.entryId /\ row.user_id # r.userId) =>
      /\ r.op = "getEntryById" => r.result = Null
      /\ r.op = "updateEntry" => (r.result = FALSE /\ vault_entries = r.before)
      /\ r.op = "deleteEntry" => (r.result = FALSE /\ vault_entries = r.before)

C20_Witness ==
  /\ reply # Null
  /\ reply[1].op = "deleteEntry"
  /\ \E row \in reply[1].before : row.id = reply[1].entryId /\ row.user_id # reply[1].userId
  /\ \E row \in vault_entries : row.user_id = reply[1].userId


\* C21: a registerUser call for an email that already belongs to a user fails
\* with 'User already exists' and creates no user; a call for an unused email
\* creates exactly one user, with that email, and returns its id; no two
\* users share an email.
C21_RegisterUserContract ==
  /\ \A i \in 1..Len(userLog) :
       LET c == userLog[i]
           taken == \E u \in c.usersBefore : u.email = c.email
       IN  c.op = "registerUser" =>
             /\ taken => /\ ~c.ok
                         /\ c.error = "User already exists"
                         /\ c.usersAfter = c.usersBefore
             /\ ~taken => /\ c.ok
                          /\ \E u \in c.usersAfter \ c.usersBefore :
                               /\ c.usersAfter = c.usersBefore \cup {u}
                               /\ u.email = c.email
                               /\ c.result.userId = u.id
  /\ \A u1 \in users, u2 \in users : u1.email = u2.email => u1 = u2

\* C22: getLoginChallenge for an email that has a user succeeds and returns
\* the clientSalt stored in that user's row together with a serverEphemeral
\* (64 hex digits), which becomes the email's active challenge; for an email
\* without a user it fails with 'User not found' and records no challenge.
C22_ChallengeCarriesStoredSalt ==
  \A i \in 1..Len(userLog) :
    LET c == userLog[i] IN
    c.op = "getLoginChallenge" =>
      /\ (\E u \in c.usersBefore : u.email = c.email) =>
           /\ c.ok
           /\ \E u \in c.usersBefore : u.email = c.email /\ c.result.salt = u.clientSalt
           /\ Len(c.result.serverEphemeral) = 2 * KEY_BYTES
           /\ c.challengeAfter = Some(c.result.serverEphemeral)
      /\ (\A u \in c.usersBefore : u.email # c.email) =>
           /\ ~c.ok
           /\ c.error = "User not found"
           /\ c.challengeAfter = Null

C22_Witness ==
  \E i \in 1..Len(userLog), j \in 1..Len(userLog) :
    /\ i < j
    /\ userLog[i].op = "getLoginChallenge" /\ ~userLog[i].ok
    /\ userLog[j].op = "getLoginChallenge" /\ userLog[j].ok
    /\ userLog[j].email = userLog[i].email
    /\ userLog[j].result.salt # RegisteredUser.clientSalt
    /\ Cardinality(challenges) = 1

\* C25: verifyLogin issues a token only when the submitted clientProof is the
\* response login() computes, with the key derived from the user's password
\* and stored salt, for the serverEphemeral of the active challenge.
C25_TokenOnlyForKeyHolder ==
  \A i \in 1..Len(userLog) :
    LET c == userLog[i] IN
    (c.op = "verifyLogin" /\ c.result.token) =>
      /\ c.userAtCall # Null
      /\ c.challengeBefore # Null
      /\ \E p \in Passwords :
           LET challenge == [salt |-> c.userAtCall[1].clientSalt,
                             serverEphemeral |-> c.challengeBefore[1]]
               proof == loginProof(p, challenge)
           IN  /\ arrayToBase64(proof.derived.key) = c.userAtCall[1].verifier
               /\ c.clientProof = proof.clientProof

\* C26: a verifyLogin call succeeds only if a getLoginChallenge call for the
\* same email succeeded after the last successful verifyLogin for it; a
\* successful verifyLogin removes the challenge, so that the next verifyLogin
\* without a new challenge fails with 'No active challenge'; a verifyLogin
\* rejected with 'Invalid credentials' leaves the challenge as it was.
ChallengedSince(i) ==
  \E j \in 1..(i - 1) :
    /\ userLog[j].op = "getLoginChallenge" /\ userLog[j].ok
    /\ userLog[j].email = userLog[i].email
    /\ \A k \in (j + 1)..(i - 1) :
         ~(userLog[k].op = "verifyLogin" /\ userLog[k].ok /\ userLog[k].email = userLog[i].email)

C26_ChallengeSingleUse ==
  \A i \in 1..Len(userLog) :
    LET c == userLog[i] IN
    c.op = "verifyLogin" =>
      /\ c.ok => ChallengedSince(i) /\ c.challengeAfter = Null
      /\ (c.userAtCall # Null /\ ~ChallengedSince(i)) =>
           ~c.ok /\ c.error = "No active challenge"
      /\ c.error = "Invalid credentials" =>
           c.challengeBefore # Null /\ c.challengeAfter = c.challengeBefore

C26_Witness ==
  /\ Len(userLog) = 3
  /\ userLog[1].op = "getLoginChallenge" /\ userLog[1].ok
  /\ userLog[2].op = "verifyLogin" /\ userLog[2].ok
  /\ userLog[3].op = "verifyLogin" /\ userLog[3].error = "No active challenge"
  /\ userLog[3].email = userLog[1].email /\ userLog[2].email = userLog[1].email

\* C28: when login() has derived its key for a user with the password that
\* register() registered the user with, from the salt of the login challenge,
\* that key is the key register() derived, whose base64 encoding is the
\* user's stored verifier.
C28_LoginKeyIsRegisteredKey ==
  \A l \in logins, g \in derived, u \in users :
    ( /\ l.by = "login"
      /\ l.key # Null
      /\ u.email = l.email
      /\ g.by = "register"
      /\ arrayToBase64(g.salt) = u.clientSalt
      /\ arrayToBase64(g.key) = u.verifier
      /\ g.password = l.password )
    => /\ l.salt = u.clientSalt
       /\ l.key[1] = g.key
       /\ arrayToBase64(l.key[1]) = u.verifier

C28_Witness ==
  \E l \in logins, g \in derived, u \in users :
    /\ l.by = "login"
    /\ l.key # Null
    /\ u.email = l.email
    /\ g.by = "register"
    /\ g.saltArg = Null
    /\ arrayToBase64(g.salt) = u.clientSalt
    /\ arrayToBase64(g.key) = u.verifier
    /\ g.password = l.password
    /\ u.id \in tokens

\* C23: when the authentication response does not verify,
\* verifyAuthentication returns a result whose verified is false, leaves the
\* credential's counter as it was and issues no token.
C23_UnverifiedReturnsFalse ==
  (/\ webauthnReply # Null
   /\ webauthnReply[1].op = "verifyAuthentication"
   /\ webauthnReply[1].verification.kind = "notVerified"
   /\ UserModel_getById(webauthnReply[1].userId) # Null
   /\ \E c \in webauthnReply[1].before.challengeStore : c.userId = webauthnReply[1].userId
   /\ WebAuthnCredentialModel_getByCredentialId(webauthnReply[1].credentialId) # Null)
  => /\ ~webauthnReply[1].thrown
     /\ webauthnReply[1].result # Null
     /\ webauthnReply[1].result[1].verified = Some(FALSE)
     /\ webauthn_credentials = webauthnReply[1].before.webauthn_credentials
     /\ tokens = webauthnReply[1].before.tokens

\* C24: when a logout has finished, the session it belongs to (AuthService or
\* useAuthStore) is unauthenticated and has no current user, whether the
\* server's logout call succeeded or failed.
C24_LogoutAlwaysClears ==
  sessionDone # Null =>
    /\ ~sessionDone[1].isAuthenticated
    /\ sessionDone[1].user = Null

C24_Witness ==
  /\ sessionDone # Null
  /\ sessionDone[1].by = "AuthService"
  /\ sessionDone[1].response.error # Null
  /\ sessionDone[1].wasAuthenticated
  /\ ~authService.isAuthenticated
  /\ authService.currentUser = Null

\* C27: when clearMasterPassword has run while a setMasterPassword call was
\* awaiting its key, the vault is locked once that call has finished.  No
\* password is held with no call pending only after a clearMasterPassword
\* that no later setMasterPassword followed, so in every such state there
\* is no key.
C27_LockWinsOverPendingUnlock ==
  (pendingUnlock = {} /\ masterPassword = Null) => (masterKey = Null /\ ~isUnlocked)

\* C29: once every action of the vault store has finished, every entry whose
\* createEntry completed successfully, and which no deleteEntry was asked to
\* remove, is in the store's entries.
C29_CreatedEntryPresent ==
  (\A c \in storeCalls : c.stage = "done") =>
    \A c \in storeCalls :
      ( /\ c.op = "createEntry"
        /\ c.ok
        /\ \A x \in storeCalls : x.op = "deleteEntry" => x.id # c.result[1].id )
      => \E i \in 1..Len(vaultStore.entries) : vaultStore.entries[i].id = c.result[1].id

\* C30: when the server's importEntries has accepted an archive, its
\* counters satisfy imported + errors = total = the number of entries of the
\* archive and skipped = 0, and the rows the call added are exactly imported
\* many, all owned by the importing user.
C30_ImportCountersAddUp ==
  (reply # Null /\ reply[1].op = "importEntries" /\ reply[1].result.ok) =>
    LET r == reply[1].result
        created == vault_entries \ reply[1].before
    IN  /\ r.imported + r.errors = r.total
        /\ r.total = Len(r.entries)
        /\ r.skipped = 0
        /\ Cardinality(created) = r.imported
        /\ \A row \in created : row.user_id = reply[1].userId
        /\ reply[1].before \subseteq vault_entries

C30_Witness ==
  /\ reply # Null
  /\ reply[1].op = "importEntries"
  /\ reply[1].result.ok
  /\ reply[1].result.total = 2
  /\ reply[1].result.imported = 1
  /\ reply[1].result.errors = 1
  /\ Cardinality(vault_entries) = 1
====
